---- MODULE Spec2Model ----
(***************************************************************************)
(* Model of the uhd-radio applications: the presence detectors            *)
(* (object_detection.py, mimo_object_detection.py), the CSI analyzer      *)
(* (csi_analysis.py) and the DBPSK modem (data_modem.py).                 *)
(*                                                                         *)
(* Numbers.  The programs compute in floating point; the model computes   *)
(* in fixed point with the units below, dividing with \div.               *)
(*   frequency response (cfr_db), scores, thresholds : 1/100 dB           *)
(*   sample magnitudes |data[i]|                      : 1e-7               *)
(*   correlation magnitudes, object_detection/csi     : 1e-9               *)
(*   correlation magnitudes, sdr_lib (mimo)           : 1e-12              *)
(* snr_db = 10*log10(x) > 10 is modelled by the equivalent x > 10.        *)
(* A python array a is the sequence with a[i] at position i+1.            *)
(***************************************************************************)
EXTENDS Integers, Sequences, FiniteSets, TLC

VARIABLES
    app,                \* which script is running
    RUNNING,            \* the shared running flag (RUNNING / sig_handler.running)
    pc,                 \* position of the receive loop: "loop" or "done"
    stop_cmds,          \* number of stop-stream commands issued
    rx,                 \* the block delivered by the last recv(): samples and metadata
    out,                \* what the last loop iteration printed
    frame_count,        \* frame_count of the running detector
    cal_frames,         \* object_detection: calibration accumulator
    baseline_cfr,       \* object_detection: baseline (None until finalized)
    adaptive_threshold, \* object_detection: decision threshold
    cal_frames_ch0,     \* mimo: accumulator of channel 0
    cal_frames_ch1,     \* mimo: accumulator of channel 1
    baseline_cfr_ch0,   \* mimo: baseline of channel 0
    baseline_cfr_ch1,   \* mimo: baseline of channel 1
    qualified,          \* history: number of qualifying frames processed so far
    decisions,          \* history: number of anomaly decisions printed so far
    message,            \* data_modem: the text handed to modulate_dbpsk
    rx_chunk,           \* data_modem: the array handed to demodulate_dbpsk_robust
    mpc,                \* data_modem: position of the demodulator
    offset,             \* data_modem: loop variable of the demodulator
    best_text,          \* data_modem: best_text
    best_score,         \* data_modem: best_score
    accepted,           \* history: the decodes of the offsets that were not rejected
    call,               \* the function under evaluation and its arguments
    ret,                \* what the function returned
    tx_pc,              \* position of the transmit thread
    cancel,             \* history: where the threads were when the flag was
                        \* cleared and what they have done since
    calibrated,         \* beamformer: calibrated
    calibration_offset, \* beamformer: calibration_offset
    current_angle,      \* beamformer: current_angle, in hundredths of a degree
    scan_direction,     \* beamformer: scan_direction
    sweep_history,      \* beamformer: sweep_history
    silence_counter,    \* loopback_test: silence_counter
    MODE_NAME           \* loopback_test, data_modem: MODE_NAME

detVars == <<app, RUNNING, pc, stop_cmds, rx, out, frame_count, cal_frames,
             baseline_cfr, adaptive_threshold, cal_frames_ch0, cal_frames_ch1,
             baseline_cfr_ch0, baseline_cfr_ch1, qualified, decisions>>

modemVars == <<message, rx_chunk, mpc, offset, best_text, best_score, accepted>>

mathVars == <<call, ret>>

cancelVars == <<tx_pc, cancel>>

beamVars == <<calibrated, calibration_offset, current_angle, scan_direction,
              sweep_history>>

loopbackVars == <<silence_counter, MODE_NAME>>

loopVars == <<beamVars, loopbackVars>>

vars == <<detVars, modemVars, mathVars, cancelVars, loopVars>>

----------------------------------------------------------------------------
(* Bounds of the model *)

\* number of frequency bins of a cfr_db vector carried by a model block
NumBins == 2
\* only the first OddSpan and the last OddSpan calibration frames may differ
\* from the nominal response
OddSpan == 1
\* qualifying frames delivered after calibration has completed
MaxMonitor == 2
\* the first NumLanes offsets of a chunk may carry a stream of their own
NumLanes == 2
\* number of different blocks of noise
NumSeeds == 3

----------------------------------------------------------------------------
(* Program constants *)

CALIBRATION_FRAMES == 40
SIGMA_MULTIPLIER == 2
MAX_THRESHOLD == 500
THRESHOLD_FLOOR == 100
FALLBACK_THRESHOLD == 300
DETECTION_THRESHOLD == 200
CSI_WIN_SIZE == 64
CHIRP_LEN == 256
PRE_CURSOR == 10
THRESHOLD == 500000
SNR_LOCK == 10
NOISE_GUARD_BAND == 20
NOISE_FALLBACK == 100000
SNR_EPS == 1
ENERGY_GUARD == 1000
CSI_POST_CURSOR == 50
LIB_NOISE_MIN_PEAK == 20
LIB_NOISE_GUARD_BAND == 10
LIB_NOISE_FALLBACK == 1000
LIB_SNR_EPS == 1
MIMO_ENERGY_GUARD == 10

None == <<>>

----------------------------------------------------------------------------
(* numpy helpers *)

RECURSIVE SumSeq(_)
SumSeq(s) == IF s = <<>> THEN 0 ELSE Head(s) + SumSeq(Tail(s))

Abs(x) == IF x < 0 THEN -x ELSE x

Max2(a, b) == IF a > b THEN a ELSE b
Min2(a, b) == IF a < b THEN a ELSE b

\* a[lo:hi] for 0 <= lo, hi <= len(a)
Slice(a, lo, hi) == IF hi > lo THEN SubSeq(a, lo + 1, hi) ELSE <<>>

\* np.max
MaxOf(a) ==
    LET vals == {a[i] : i \in 1..Len(a)}
    IN CHOOSE v \in vals : \A w \in vals : w <= v

\* np.argmax: index (from 0) of the first maximum
ArgMax(a) ==
    LET m == MaxOf(a)
    IN CHOOSE i \in 0..(Len(a) - 1) :
           /\ a[i + 1] = m
           /\ \A j \in 0..(i - 1) : a[j + 1] # m

\* np.mean(a) of a vector, in the vector's unit
MeanSeq(a) == SumSeq(a) \div Len(a)

\* np.mean(np.array(frames), axis=0)
ElemMean(frames) ==
    [j \in 1..Len(frames[1]) |->
        SumSeq([i \in 1..Len(frames) |-> frames[i][j]]) \div Len(frames)]

\* np.abs(a - b) of two vectors
AbsDiff(a, b) == [j \in 1..Len(a) |-> Abs(a[j] - b[j])]

RECURSIVE SqrtSearch(_, _, _)
SqrtSearch(x, lo, hi) ==
    IF lo >= hi THEN lo
    ELSE LET mid == (lo + hi + 1) \div 2
         IN IF mid * mid <= x THEN SqrtSearch(x, mid, hi)
                              ELSE SqrtSearch(x, lo, mid - 1)

\* np.sqrt on the fixed-point grid: the largest r with r*r <= x
ISqrt(x) == SqrtSearch(x, 0, Min2(x, 46340))

\* np.std(d): population standard deviation
StdSeq(d) ==
    CHOOSE std \in
        {ISqrt(SumSeq([i \in 1..Len(d) |-> (d[i] - m) * (d[i] - m)]) \div Len(d)) :
            m \in {MeanSeq(d)}} : TRUE

----------------------------------------------------------------------------
(* The blocks recv() can deliver *)

Flat(v) == [j \in 1..NumBins |-> v]
Tilt(v) == [j \in 1..NumBins |-> IF j = 1 THEN v ELSE 0]

\* an array of length n that is bg everywhere except pk at index p
Spike(n, p, pk, bg) == [i \in 1..n |-> IF i = p + 1 THEN pk ELSE bg]

NominalCfr == Flat(0)

(* A block is what one recv() call leaves behind: metadata.error_code,    *)
(* samps, the sample magnitudes of the two channels (a one-channel        *)
(* script reads ch0 only), and two results of numpy routines that the     *)
(* model does not compute: corr, the magnitudes of np.correlate(ch0,      *)
(* PROBE_TX, 'valid'), and cfr0/cfr1, the cfr_db the metric extractor     *)
(* returns for the block's window of each channel.  np.correlate returns  *)
(* max(samps, CHIRP_LEN) - min(samps, CHIRP_LEN) + 1 values: for a block  *)
(* shorter than the probe it exchanges the two arrays and raises nothing. *)
Blk(e, n, c0, c1, cr, f0, f1) ==
    [error_code |-> e, samps |-> n, ch0 |-> c0, ch1 |-> c1, corr |-> cr,
     cfr0 |-> f0, cfr1 |-> f1]

Loud == Spike(300, 30, 5000000, 1000)
Strong == Spike(45, 30, 10000000, 10000)

\* blocks of the one-channel scripts (correlation in units of 1e-9)
SisoBlocks ==
    [good0    |-> Blk("none", 300, Loud, <<>>, Strong, NominalCfr, None),
     good1    |-> Blk("none", 300, Loud, <<>>, Spike(45, 5, 2000000, 0),
                      Flat(100), None),
     good2    |-> Blk("none", 300, Loud, <<>>, Spike(45, 44, 10000000, 10000),
                      Tilt(1000), None),
     good3    |-> Blk("none", 300, Loud, <<>>, Strong, Flat(2000), None),
     quiet    |-> Blk("none", 300, Spike(300, 30, 500000, 1000), <<>>, Strong,
                      Flat(2000), None),
     lowsnr   |-> Blk("none", 300, Loud, <<>>, Spike(45, 5, 1000010, 0),
                      Flat(2000), None),
     dead     |-> Blk("none", 300, Spike(300, 0, 10000000, 0), <<>>,
                      Spike(45, 30, 50, 0), Flat(2000), None),
     empty    |-> Blk("none", 0, <<>>, <<>>, <<>>, None, None),
     short    |-> Blk("none", 100, Spike(100, 30, 5000000, 1000), <<>>,
                      Spike(157, 30, 10000000, 10000), Flat(2000), None),
     overflow |-> Blk("overflow", 300, Loud, <<>>, Strong, Flat(2000), None),
     timeout  |-> Blk("timeout", 0, <<>>, <<>>, <<>>, None, None)]

Silent == Spike(300, 30, 0, 0)
LibStrong == Spike(45, 30, 10000000, 10000)

\* blocks of the two-channel script (correlation in units of 1e-12)
MimoBlocks ==
    [m_good0    |-> Blk("none", 300, Loud, Loud, LibStrong, NominalCfr, NominalCfr),
     m_good1    |-> Blk("none", 300, Loud, Loud, Spike(45, 5, 20000, 0),
                        Flat(300), Flat(100)),
     m_good2    |-> Blk("none", 300, Loud, Loud, Spike(45, 44, 10000000, 10000),
                        NominalCfr, Tilt(1000)),
     m_good3    |-> Blk("none", 300, Loud, Loud, LibStrong, Flat(2000), Flat(500)),
     m_quiet    |-> Blk("none", 300, Spike(300, 30, 500000, 1000), Loud, LibStrong,
                        Flat(2000), Flat(2000)),
     m_lowsnr   |-> Blk("none", 300, Loud, Loud, Spike(45, 5, 10010, 0),
                        Flat(2000), Flat(2000)),
     m_dead0    |-> Blk("none", 300, Spike(300, 0, 10000000, 0), Loud,
                        Spike(45, 30, 47000, 100), Flat(2000), Flat(2000)),
     m_dead1    |-> Blk("none", 300, Loud, Silent, LibStrong, Flat(2000), Flat(2000)),
     m_empty    |-> Blk("none", 0, <<>>, <<>>, <<>>, None, None),
     m_short    |-> Blk("none", 100, Spike(100, 30, 5000000, 1000),
                        Spike(100, 30, 5000000, 1000),
                        Spike(157, 30, 10000000, 10000), Flat(2000), Flat(2000)),
     m_overflow |-> Blk("overflow", 300, Loud, Loud, LibStrong, Flat(2000), Flat(2000)),
     m_timeout  |-> Blk("timeout", 0, <<>>, <<>>, <<>>, None, None)]

BlockTable == SisoBlocks @@ MimoBlocks

\* the block a name stands for
Block(id) == BlockTable[id]

SisoIds == DOMAIN SisoBlocks
MimoIds == DOMAIN MimoBlocks
NoBlock == "nothing"

----------------------------------------------------------------------------
(* object_detection.py: detection and the calibration/anomaly engine *)

\* np.max(np.abs(data))
MaxAbs(data) == MaxOf(data)

\* the noise estimate as <<sum, count>>, so that the mean stays exact
\* (object_detection.py line 114)
NoiseFloor(mag, peak_idx) ==
    IF peak_idx > NOISE_GUARD_BAND
    THEN LET region == Slice(mag, 0, Max2(0, peak_idx - NOISE_GUARD_BAND))
         IN <<SumSeq(region), Len(region)>>
    ELSE <<NOISE_FALLBACK, 1>>

\* snr_db > 10, with snr_db = 10*log10(peak_val / (noise_floor + 1e-9))
SnrLocked(peak_val, nf) ==
    peak_val * nf[2] > SNR_LOCK * (nf[1] + SNR_EPS * nf[2])

\* the zero-padded window of CSI_WIN_SIZE samples around peak_idx
CirWindow(src, peak_idx) ==
    LET start_idx == peak_idx - PRE_CURSOR
        end_idx   == start_idx + CSI_WIN_SIZE
        src_start == Max2(0, start_idx)
        src_end   == Min2(Len(src), end_idx)
        dst_start == src_start - start_idx
        dst_end   == dst_start + (src_end - src_start)
    IN [i \in 1..CSI_WIN_SIZE |->
           IF src_end > src_start /\ dst_start <= i - 1 /\ i - 1 < dst_end
           THEN src[src_start + (i - 1 - dst_start) + 1]
           ELSE 0]

\* np.sum(np.abs(cir_window)) < 1e-6
WindowDead(cir_window) == SumSeq(cir_window) < ENERGY_GUARD

NoResult == [ok |-> FALSE, cfr_db |-> None]

\* calculate_csi_metrics: the frequency response of the window is the one
\* the block carries
calculate_csi_metrics(b, cir_window) == [ok |-> TRUE, cfr_db |-> b.cfr0]

process_rx_packet(b) ==
    LET mag      == b.corr
        peak_idx == ArgMax(mag)
        peak_val == mag[peak_idx + 1]
    IN IF SnrLocked(peak_val, NoiseFloor(mag, peak_idx))
       THEN LET cir_window == CirWindow(mag, peak_idx)
            IN IF WindowDead(cir_window) THEN NoResult
               ELSE calculate_csi_metrics(b, cir_window)
       ELSE NoResult

\* variant: the energy gate lets a peak equal to THRESHOLD through
RxResult_ge(b) ==
    IF b.error_code # "none" THEN NoResult
    ELSE IF b.samps > 0 /\ MaxAbs(b.ch0) >= THRESHOLD THEN process_rx_packet(b)
    ELSE NoResult

\* variant: metadata.error_code is not looked at
RxResult_noerr(b) ==
    IF b.samps > 0 /\ MaxAbs(b.ch0) > THRESHOLD THEN process_rx_packet(b)
    ELSE NoResult

\* the gates of the receive loop before the engine (lines 222-231)
RxResult(b) ==
    IF b.error_code # "none" THEN NoResult
    ELSE IF b.samps > 0 /\ MaxAbs(b.ch0) > THRESHOLD THEN process_rx_packet(b)
    ELSE NoResult

\* np.mean(np.abs(frame - baseline))
MeanAbsDev(frame, baseline) == MeanSeq(AbsDiff(frame, baseline))

\* variant: the floor without the ceiling
ClampThreshold_noceiling(t) == IF t < THRESHOLD_FLOOR THEN THRESHOLD_FLOOR ELSE t

\* lines 258-263
ClampThreshold(t) ==
    LET floored == IF t < THRESHOLD_FLOOR THEN THRESHOLD_FLOOR ELSE t
    IN IF floored > MAX_THRESHOLD THEN MAX_THRESHOLD ELSE floored

\* noise_mean + SIGMA_MULTIPLIER * noise_std of the calibration frames
RawThreshold(frames, baseline) ==
    CHOOSE t \in
        {MeanSeq(diffs) + SIGMA_MULTIPLIER * StdSeq(diffs) :
            diffs \in {SubSeq([i \in 1..Len(frames) |->
                                  MeanAbsDev(frames[i], baseline)],
                              1, Len(frames))}} : TRUE

NoOut == [kind |-> "none", score |-> 0, detected |-> FALSE]

\* variant: a score equal to the threshold counts as detected
IsDetected_ge(anomaly_score, threshold) == anomaly_score >= threshold

IsDetected(anomaly_score, threshold) == anomaly_score > threshold

\* the engine state after the frame that completes the calibration
FinishCalibration(st) ==
    CHOOSE fin \in
        {[st EXCEPT !.baseline_cfr = base,
                    !.adaptive_threshold =
                        ClampThreshold(RawThreshold(frames, base))] :
            frames \in {st.cal_frames},
            base \in {SubSeq(ElemMean(st.cal_frames), 1, NumBins)}} : TRUE

\* variant: the accumulator is emptied once the baseline has been made
CalibrationStep_forget(st, current_cfr) ==
    LET acc == [st EXCEPT !.cal_frames = Append(st.cal_frames, current_cfr),
                          !.frame_count = st.frame_count + 1]
    IN [st  |-> IF acc.frame_count = CALIBRATION_FRAMES
                THEN [FinishCalibration(acc) EXCEPT !.cal_frames = <<>>] ELSE acc,
        out |-> [kind |-> "calibrating", score |-> 0, detected |-> FALSE]]

\* lines 234-267: a frame while calibrating
CalibrationStep(st, current_cfr) ==
    LET acc == [st EXCEPT !.cal_frames = Append(st.cal_frames, current_cfr),
                          !.frame_count = st.frame_count + 1]
    IN [st  |-> IF acc.frame_count = CALIBRATION_FRAMES
                THEN FinishCalibration(acc) ELSE acc,
        out |-> [kind |-> "calibrating", score |-> 0, detected |-> FALSE]]

\* variant: a detection starts a new calibration
MonitoringStep_recalibrate(st, current_cfr) ==
    LET anomaly_score == MeanAbsDev(current_cfr, st.baseline_cfr)
        is_detected   == IsDetected(anomaly_score, st.adaptive_threshold)
    IN [st  |-> IF is_detected
                THEN [st EXCEPT !.frame_count = 0, !.cal_frames = <<>>]
                ELSE st,
        out |-> [kind |-> "decision", score |-> anomaly_score,
                 detected |-> is_detected]]

\* variant: the baseline follows the frames that were found clear
MonitoringStep_drift(st, current_cfr) ==
    LET anomaly_score == MeanAbsDev(current_cfr, st.baseline_cfr)
        is_detected   == IsDetected(anomaly_score, st.adaptive_threshold)
    IN [st  |-> IF is_detected THEN st
                ELSE [st EXCEPT !.baseline_cfr =
                                    ElemMean(<<st.baseline_cfr, current_cfr>>)],
        out |-> [kind |-> "decision", score |-> anomaly_score,
                 detected |-> is_detected]]

\* lines 269-282: a frame while monitoring
MonitoringStep(st, current_cfr) ==
    LET anomaly_score == MeanAbsDev(current_cfr, st.baseline_cfr)
    IN [st  |-> st,
        out |-> [kind |-> "decision", score |-> anomaly_score,
                 detected |-> IsDetected(anomaly_score, st.adaptive_threshold)]]

\* variant: one frame too many is taken for the calibration
AnomalyEngine_offbyone(st, current_cfr) ==
    IF st.frame_count <= CALIBRATION_FRAMES
    THEN CalibrationStep(st, current_cfr)
    ELSE MonitoringStep(st, current_cfr)

\* lines 232-282: the engine on one qualifying frame
AnomalyEngine(st, current_cfr) ==
    IF st.frame_count < CALIBRATION_FRAMES
    THEN CalibrationStep(st, current_cfr)
    ELSE MonitoringStep(st, current_cfr)

----------------------------------------------------------------------------
(* csi_analysis.py: process_rx_packet without the energy guard *)

\* correlation[start:end] of lines 125-128
CsiWindow(correlation, peak_idx) ==
    Slice(correlation, Max2(0, peak_idx - PRE_CURSOR),
          Min2(Len(correlation), peak_idx + CSI_POST_CURSOR))

csi_process_rx_packet(b) ==
    LET mag      == b.corr
        peak_idx == ArgMax(mag)
        peak_val == mag[peak_idx + 1]
    IN IF SnrLocked(peak_val, NoiseFloor(mag, peak_idx))
       THEN calculate_csi_metrics(b, CsiWindow(mag, peak_idx))
       ELSE NoResult

\* the gates of csi_analysis.rx_analysis_loop (lines 212-224)
CsiRxResult(b) ==
    IF b.error_code # "none" THEN NoResult
    ELSE IF b.samps > 0 /\ MaxAbs(b.ch0) > THRESHOLD THEN csi_process_rx_packet(b)
    ELSE NoResult

CsiResult == [id \in SisoIds |-> CsiRxResult(Block(id))]

----------------------------------------------------------------------------
(* sdr_lib/sdr_utils.py and mimo_object_detection.py *)

\* sdr_utils.correlate_and_detect: peak and noise estimate <<sum, count>>
correlate_and_detect(mag) ==
    LET peak_idx == ArgMax(mag)
        region   == Slice(mag, 0, Max2(0, peak_idx - LIB_NOISE_GUARD_BAND))
    IN [peak_idx |-> peak_idx,
        peak_val |-> mag[peak_idx + 1],
        noise_floor |-> IF peak_idx > LIB_NOISE_MIN_PEAK /\ Len(region) > 0
                        THEN <<SumSeq(region), Len(region)>>
                        ELSE <<LIB_NOISE_FALLBACK, 1>>]

\* res['snr_db'] > 10, with snr_db = 10*log10(peak_val / (noise_floor + 1e-12))
LibSnrLocked(res) ==
    res.peak_val * res.noise_floor[2]
        > SNR_LOCK * (res.noise_floor[1] + LIB_SNR_EPS * res.noise_floor[2])

\* extract_csi_for_channel: the window is cut from the channel's samples
extract_csi_for_channel(rx_data, peak_idx, cfr) ==
    IF SumSeq(CirWindow(rx_data, peak_idx)) < MIMO_ENERGY_GUARD
    THEN NoResult
    ELSE [ok |-> TRUE, cfr_db |-> cfr]

NoMimoResult == [ok |-> FALSE, cfr0 |-> None, cfr1 |-> None]

\* variant: the metrics of channel 0 are enough for a block to be counted
MimoRxResult_either(b) ==
    IF b.error_code # "none" THEN NoMimoResult
    ELSE IF b.samps > 0 /\ MaxAbs(b.ch0) > THRESHOLD
    THEN LET res_ch0 == correlate_and_detect(b.corr)
         IN IF LibSnrLocked(res_ch0)
            THEN LET metrics_ch0 ==
                         extract_csi_for_channel(b.ch0, res_ch0.peak_idx, b.cfr0)
                 IN IF metrics_ch0.ok
                    THEN [ok |-> TRUE, cfr0 |-> metrics_ch0.cfr_db,
                          cfr1 |-> b.cfr1]
                    ELSE NoMimoResult
            ELSE NoMimoResult
    ELSE NoMimoResult

\* the gates of rx_mimo_analysis_loop before the engine (lines 127-151)
MimoRxResult(b) ==
    IF b.error_code # "none" THEN NoMimoResult
    ELSE IF b.samps > 0 /\ MaxAbs(b.ch0) > THRESHOLD
    THEN LET res_ch0 == correlate_and_detect(b.corr)
         IN IF LibSnrLocked(res_ch0)
            THEN LET metrics_ch0 ==
                         extract_csi_for_channel(b.ch0, res_ch0.peak_idx, b.cfr0)
                     metrics_ch1 ==
                         extract_csi_for_channel(b.ch1, res_ch0.peak_idx, b.cfr1)
                 IN IF metrics_ch0.ok /\ metrics_ch1.ok
                    THEN [ok |-> TRUE, cfr0 |-> metrics_ch0.cfr_db,
                          cfr1 |-> metrics_ch1.cfr_db]
                    ELSE NoMimoResult
            ELSE NoMimoResult
    ELSE NoMimoResult

MimoResult == [id \in MimoIds |-> MimoRxResult(Block(id))]

\* lines 154-165: a frame while calibrating
MimoCalibrationStep(st, cfr0, cfr1) ==
    LET acc == [st EXCEPT !.cal_frames_ch0 = Append(st.cal_frames_ch0, cfr0),
                          !.cal_frames_ch1 = Append(st.cal_frames_ch1, cfr1),
                          !.frame_count = st.frame_count + 1]
    IN [st  |-> IF acc.frame_count = CALIBRATION_FRAMES
                THEN [acc EXCEPT !.baseline_cfr_ch0 = ElemMean(acc.cal_frames_ch0),
                                 !.baseline_cfr_ch1 = ElemMean(acc.cal_frames_ch1)]
                ELSE acc,
        out |-> [kind |-> "calibrating", score |-> 0, detected |-> FALSE]]

\* lines 168-187: a frame while monitoring
MimoMonitoringStep(st, cfr0, cfr1) ==
    LET score0 == MeanAbsDev(cfr0, st.baseline_cfr_ch0)
        score1 == MeanAbsDev(cfr1, st.baseline_cfr_ch1)
        combined_score == (score0 + score1) \div 2
    IN [st  |-> st,
        out |-> [kind |-> "decision", score |-> combined_score,
                 detected |-> IsDetected(combined_score, DETECTION_THRESHOLD)]]

\* lines 150-187: the two-channel engine on one qualifying block
MimoAnomalyEngine(st, cfr0, cfr1) ==
    IF st.frame_count < CALIBRATION_FRAMES
    THEN MimoCalibrationStep(st, cfr0, cfr1)
    ELSE MimoMonitoringStep(st, cfr0, cfr1)

----------------------------------------------------------------------------
(* object_detection.py: rx_analysis_loop *)

DetectionState ==
    [frame_count |-> frame_count, cal_frames |-> cal_frames,
     baseline_cfr |-> baseline_cfr, adaptive_threshold |-> adaptive_threshold]

\* what the radio may deliver within the bounds: frames off the nominal
\* response only at the two ends of the calibration, MaxMonitor frames
\* afterwards
Deliverable(qualifies, isOdd) ==
    qualifies =>
        /\ qualified < CALIBRATION_FRAMES + MaxMonitor
        /\ (frame_count < CALIBRATION_FRAMES /\ isOdd) =>
               \/ frame_count < OddSpan
               \/ frame_count >= CALIBRATION_FRAMES - OddSpan

\* RxResult of every block of the one-channel scripts
SisoResult == [id \in SisoIds |-> RxResult(Block(id))]

mimoVars == <<cal_frames_ch0, cal_frames_ch1, baseline_cfr_ch0, baseline_cfr_ch1>>
sisoVars == <<cal_frames, baseline_cfr, adaptive_threshold>>

\* the body of the while loop (lines 217-282) for a block out of ids
rx_analysis_body(ids) ==
    /\ app = "object_detection"
    /\ \E id \in ids :
       \E result \in {SisoResult[id]} :
       \E step \in {IF result.ok
                     THEN AnomalyEngine(DetectionState, result.cfr_db)
                     ELSE [st |-> DetectionState, out |-> NoOut]} :
           /\ Deliverable(result.ok, result.cfr_db # NominalCfr)
           /\ rx' = id
           /\ out' = step.out
           /\ frame_count' = step.st.frame_count
           /\ cal_frames' = step.st.cal_frames
           /\ baseline_cfr' = step.st.baseline_cfr
           /\ adaptive_threshold' = step.st.adaptive_threshold
           /\ qualified' = IF result.ok THEN qualified + 1 ELSE qualified
           /\ decisions' = IF step.out.kind = "decision" THEN decisions + 1
                           ELSE decisions
    /\ UNCHANGED <<app, RUNNING, stop_cmds, mimoVars, modemVars, loopVars, mathVars>>

\* one iteration of the while loop (lines 216-282)
rx_analysis_loop ==
    /\ pc = "loop"
    /\ RUNNING
    /\ rx_analysis_body(SisoIds)
    /\ UNCHANGED <<pc, cancelVars>>

MimoState ==
    [frame_count |-> frame_count,
     cal_frames_ch0 |-> cal_frames_ch0, cal_frames_ch1 |-> cal_frames_ch1,
     baseline_cfr_ch0 |-> baseline_cfr_ch0, baseline_cfr_ch1 |-> baseline_cfr_ch1]

\* mimo_object_detection.py: the body of the while loop (lines 125-187)
rx_mimo_analysis_body(ids) ==
    /\ app = "mimo_object_detection"
    /\ \E id \in ids :
       \E result \in {MimoResult[id]} :
       \E step \in {IF result.ok
                     THEN MimoAnomalyEngine(MimoState, result.cfr0, result.cfr1)
                     ELSE [st |-> MimoState, out |-> NoOut]} :
           /\ Deliverable(result.ok,
                          result.cfr0 # NominalCfr \/ result.cfr1 # NominalCfr)
           /\ rx' = id
           /\ out' = step.out
           /\ frame_count' = step.st.frame_count
           /\ cal_frames_ch0' = step.st.cal_frames_ch0
           /\ cal_frames_ch1' = step.st.cal_frames_ch1
           /\ baseline_cfr_ch0' = step.st.baseline_cfr_ch0
           /\ baseline_cfr_ch1' = step.st.baseline_cfr_ch1
           /\ qualified' = IF result.ok THEN qualified + 1 ELSE qualified
           /\ decisions' = IF step.out.kind = "decision" THEN decisions + 1
                           ELSE decisions
    /\ UNCHANGED <<app, RUNNING, stop_cmds, sisoVars, modemVars, loopVars, mathVars>>

\* mimo_object_detection.py: one iteration of the while loop (lines 124-187)
rx_mimo_analysis_loop ==
    /\ pc = "loop"
    /\ RUNNING
    /\ rx_mimo_analysis_body(MimoIds)
    /\ UNCHANGED <<pc, cancelVars>>

\* csi_analysis.py: the body of the while loop (lines 207-232)
csi_rx_analysis_body(ids) ==
    /\ app = "csi_analysis"
    /\ \E id \in ids :
        LET result == CsiResult[id]
        IN /\ rx' = id
           /\ out' = IF result.ok
                     THEN [kind |-> "metrics", score |-> 0, detected |-> FALSE]
                     ELSE NoOut
    /\ UNCHANGED <<app, RUNNING, stop_cmds, frame_count, sisoVars, mimoVars,
                   qualified, decisions, modemVars, loopVars, mathVars>>

\* csi_analysis.py: one iteration of the while loop (lines 206-232)
csi_rx_analysis_loop ==
    /\ pc = "loop"
    /\ RUNNING
    /\ csi_rx_analysis_body(SisoIds)
    /\ UNCHANGED <<pc, cancelVars>>

\* nothing has cleared the flag
NoCancel == [cleared |-> FALSE, pc |-> "", tx_pc |-> "", entered |-> 0,
             finished |-> 0, sent |-> 0]

\* the SIGINT handler (lines 38-41; SignalHandler.handler in sdr_lib)
handler ==
    /\ RUNNING
    /\ RUNNING' = FALSE
    /\ cancel' = [NoCancel EXCEPT !.cleared = TRUE, !.pc = pc, !.tx_pc = tx_pc]
    /\ UNCHANGED <<app, pc, stop_cmds, rx, out, frame_count, sisoVars, mimoVars,
                   qualified, decisions, modemVars, loopVars, mathVars, tx_pc>>

\* leaving the while loop: the stop-stream command (lines 284-285)
rx_stop ==
    /\ pc = "loop"
    /\ ~RUNNING
    /\ stop_cmds' = stop_cmds + 1
    /\ pc' = "done"
    /\ UNCHANGED <<app, RUNNING, rx, out, frame_count, sisoVars, mimoVars,
                   qualified, decisions, modemVars, loopVars, mathVars, cancelVars>>

----------------------------------------------------------------------------
(* data_modem.py: the DBPSK modem                                          *)
(*                                                                         *)
(* A text is the sequence of its character codes.  A sample is the pair   *)
(* <<re, im>> in units of 0.1; a phase is counted in half turns, and      *)
(* exp(1j*pi) is taken to be exactly -1.                                   *)

SPS == 100
MESSAGE == <<72, 101, 108, 108, 111, 32, 87, 111, 114, 108, 100>>
PILOT_SYMBOLS == 50
AMPLITUDE == 7
OFFSET_STEP == 10
MIN_SYMBOLS == 60
PREAMBLE_SPAN == 48
PREAMBLE_MIN_ZEROS == 40
SYNC_WINDOW_START == 45
SYNC_WINDOW_END == 60
MAX_MSG_LEN == 100
PRINTABLE_MIN == 32
PRINTABLE_MAX == 126
CHUNK_LEN == 20000

ZeroSample == <<0, 0>>

\* variant: the digits of a character are sent least significant first
text_to_bits_lsb(text) ==
    [i \in 1..(8 * Len(text)) |->
        (text[(i - 1) \div 8 + 1] \div 2^((i - 1) % 8)) % 2]

text_to_bits(text) ==
    [i \in 1..(8 * Len(text)) |->
        (text[(i - 1) \div 8 + 1] \div 2^(7 - ((i - 1) % 8))) % 2]

\* val = (val << 1) | bit over the 8 bits that start at index first (from 0)
ByteValue(bits, first) ==
    128 * bits[first + 1] + 64 * bits[first + 2] + 32 * bits[first + 3]
        + 16 * bits[first + 4] + 8 * bits[first + 5] + 4 * bits[first + 6]
        + 2 * bits[first + 7] + bits[first + 8]

bits_to_text(bits) ==
    [c \in 1..(Len(bits) \div 8) |-> ByteValue(bits, 8 * (c - 1))]

\* np.exp(1j * current_phase), current_phase in half turns, in units of 0.1
Expj(current_phase) == IF current_phase % 2 = 0 THEN <<10, 0>> ELSE <<-10, 0>>

\* the half turns the first m payload bits have added to current_phase
Flips(bits, m) == Cardinality({i \in 1..m : bits[i] = 1})

\* modulate_dbpsk up to np.repeat: the symbols, scaled by 0.7.  The
\* waveform is np.repeat(symbols, SPS); Repeated reads a sample of it.
modulate_dbpsk(text) ==
    LET full_payload == <<Len(text)>> \o text
        bits         == text_to_bits(full_payload)
        symbols      == [j \in 1..(PILOT_SYMBOLS + 1 + Len(bits)) |->
                            IF j <= PILOT_SYMBOLS THEN Expj(0)
                            ELSE Expj(1 + Flips(bits, j - PILOT_SYMBOLS - 1))]
        tx_symbols   == [j \in 1..Len(symbols) |->
                            <<(symbols[j][1] * AMPLITUDE) \div 10,
                              (symbols[j][2] * AMPLITUDE) \div 10>>]
    IN SubSeq(tx_symbols, 1, Len(tx_symbols))

\* np.repeat(symbols, SPS)[i]
Repeated(symbols, i) == symbols[i \div SPS + 1]

(* The array handed to the demodulator is described by                     *)
(*   len     its length                                                    *)
(*   pad     number of samples in front of the waveform                    *)
(*   padval  the value of those samples                                    *)
(*   symbols the symbols of the waveform (each held for SPS samples)       *)
(*   over    streams that replace the samples of some sampling phases:     *)
(*           sample r + SPS*j is over[r][j+1] for r in DOMAIN over         *)
(* Samples beyond the waveform or a stream are zero.                       *)
Chunk(n, k, pv, sym, ov) ==
    [len |-> n, pad |-> k, padval |-> pv, symbols |-> sym, over |-> ov]

NoChunk == Chunk(0, 0, ZeroSample, <<>>, <<>>)

\* chunk[i], i from 0
SampleAt(chunk, i) ==
    IF (i % SPS) \in DOMAIN chunk.over
    THEN LET stream == chunk.over[i % SPS]
         IN IF i \div SPS < Len(stream) THEN stream[i \div SPS + 1] ELSE ZeroSample
    ELSE IF i < chunk.pad THEN chunk.padval
    ELSE IF (i - chunk.pad) \div SPS < Len(chunk.symbols)
    THEN Repeated(chunk.symbols, i - chunk.pad)
    ELSE ZeroSample

\* chunk[off::SPS]
Strided(chunk, off) ==
    LET n == IF chunk.len > off THEN (chunk.len - off + SPS - 1) \div SPS ELSE 0
    IN SubSeq([j \in 1..n |-> SampleAt(chunk, off + SPS * (j - 1))], 1, n)

\* np.abs(np.angle(a * np.conj(b))) > np.pi / 2: the real part of
\* a*conj(b) is negative
PhaseFlip(a, b) == a[1] * b[1] + a[2] * b[2] < 0

DetectedBits(raw_symbols) ==
    LET diffs == [i \in 1..(Len(raw_symbols) - 1) |->
                     IF PhaseFlip(raw_symbols[i + 1], raw_symbols[i]) THEN 1 ELSE 0]
    IN SubSeq(diffs, 1, Len(raw_symbols) - 1)

IsPrintable(c) == PRINTABLE_MIN <= c /\ c <= PRINTABLE_MAX

Rejected == [ok |-> FALSE, text |-> <<>>]

\* variant: the sync bit is looked for in detected_bits[45:50] only
SyncWindow_narrow(detected_bits) ==
    {i \in SYNC_WINDOW_START..(Min2(SYNC_WINDOW_START + 5, Len(detected_bits)) - 1) :
        detected_bits[i + 1] = 1}

\* the indices (from 0) of the ones of detected_bits[45:60]
SyncWindow(detected_bits) ==
    {i \in SYNC_WINDOW_START..(Min2(SYNC_WINDOW_END, Len(detected_bits)) - 1) :
        detected_bits[i + 1] = 1}

\* np.sum(detected_bits[:48] == 0)
PreambleZeros(detected_bits) ==
    Cardinality({i \in 1..Min2(PREAMBLE_SPAN, Len(detected_bits)) :
                    detected_bits[i] = 0})

\* variant: no timing-lock gate
TimingLocked_always(preamble_zeros) == TRUE

\* variant: more than 40 zeros are asked for
TimingLocked_gt(preamble_zeros) == preamble_zeros > PREAMBLE_MIN_ZEROS

\* the offset is not skipped by "if preamble_zeros < 40: continue"
TimingLocked(preamble_zeros) == ~(preamble_zeros < PREAMBLE_MIN_ZEROS)

\* start_of_data = 45 + sync_rel_idx + 1
\* variant: the length byte is read from the sync bit on
StartOfData_onsync(sync_rel_idx) == SYNC_WINDOW_START + sync_rel_idx

StartOfData(sync_rel_idx) == SYNC_WINDOW_START + sync_rel_idx + 1

\* variant: a length of 100 is refused as well
LengthSane_below(msg_len) == ~(msg_len = 0 \/ msg_len >= MAX_MSG_LEN)

\* the offset is not skipped by "if msg_len == 0 or msg_len > 100: continue"
LengthSane(msg_len) == ~(msg_len = 0 \/ msg_len > MAX_MSG_LEN)

\* variant: the payload is read whether or not its bits are all there
PayloadComplete_unchecked(nbits, payload_end) == TRUE

\* the offset is not skipped by "if len(detected_bits) < payload_end: continue"
PayloadComplete(nbits, payload_end) == ~(nbits < payload_end)

\* detected_bits[payload_start : payload_end]; a slice that runs past the
\* end of the array stops at the end
PayloadBits(detected_bits, payload_start, payload_end) ==
    Slice(detected_bits, payload_start, Min2(payload_end, Len(detected_bits)))

\* the body of the offset loop after the timing-lock gate (lines 125-160)
SyncAndDecode(detected_bits) ==
    LET nbits == Len(detected_bits)
        ones  == SyncWindow(detected_bits)
    IN IF ones = {} THEN Rejected
       ELSE LET sync_rel_idx  == (CHOOSE i \in ones : \A j \in ones : i <= j)
                                     - SYNC_WINDOW_START
                start_of_data == StartOfData(sync_rel_idx)
            IN IF nbits - start_of_data < 8 THEN Rejected
               ELSE LET msg_len       == ByteValue(detected_bits, start_of_data)
                        payload_start == start_of_data + 8
                        payload_end   == payload_start + msg_len * 8
                    IN IF ~LengthSane(msg_len) THEN Rejected
                       ELSE IF ~PayloadComplete(nbits, payload_end) THEN Rejected
                       ELSE [ok   |-> TRUE,
                             text |-> SelectSeq(
                                 bits_to_text(PayloadBits(detected_bits, payload_start,
                                                          payload_end)),
                                 IsPrintable)]

\* the body of the offset loop after differential detection (lines 116-160)
DecodeBits(detected_bits) ==
    IF ~TimingLocked(PreambleZeros(detected_bits)) THEN Rejected
    ELSE SyncAndDecode(detected_bits)

\* one pass of the offset loop up to clean_text (lines 103-160); the
\* one-element sets name raw_symbols and detected_bits as computed values
DemodOffset(chunk, off) ==
    CHOOSE r \in {IF Len(raw_symbols) < MIN_SYMBOLS THEN Rejected
                  ELSE CHOOSE d \in {DecodeBits(detected_bits) :
                                        detected_bits \in {DetectedBits(raw_symbols)}} : TRUE :
                  raw_symbols \in {Strided(chunk, off)}} : TRUE

\* variant: the first offset that is not rejected is kept
KeepBest_first(best, clean_text) ==
    IF best.score < 0
    THEN [text |-> clean_text, score |-> Len(clean_text)]
    ELSE best

\* lines 163-165
KeepBest(best, clean_text) ==
    IF Len(clean_text) > best.score
    THEN [text |-> clean_text, score |-> Len(clean_text)]
    ELSE best

Apps == {"object_detection", "mimo_object_detection", "csi_analysis"}

\* no function is under evaluation
NoCall == [fn |-> "none"]

NoRet == [kind |-> "none"]

\* run_beamformer and run_robust_rx have not been entered
LoopsIdle ==
    /\ calibrated = FALSE
    /\ calibration_offset = 0
    /\ current_angle = -6000
    /\ scan_direction = 1
    /\ sweep_history = <<>>
    /\ silence_counter = 0
    /\ MODE_NAME = "Native Continuous"

Init ==
    /\ LoopsIdle
    /\ app \in Apps
    /\ RUNNING = TRUE
    /\ pc = "loop"
    /\ stop_cmds = 0
    /\ rx = NoBlock
    /\ out = NoOut
    /\ frame_count = 0
    /\ cal_frames = <<>>
    /\ baseline_cfr = None
    /\ adaptive_threshold = FALLBACK_THRESHOLD
    /\ cal_frames_ch0 = <<>>
    /\ cal_frames_ch1 = <<>>
    /\ baseline_cfr_ch0 = None
    /\ baseline_cfr_ch1 = None
    /\ qualified = 0
    /\ decisions = 0
    /\ message = <<>>
    /\ rx_chunk = NoChunk
    /\ mpc = "idle"
    /\ offset = 0
    /\ best_text = <<>>
    /\ best_score = -1
    /\ accepted = <<>>
    /\ call = NoCall
    /\ ret = NoRet
    /\ tx_pc = "off"
    /\ cancel = NoCancel

Next ==
    \/ rx_analysis_loop
    \/ rx_mimo_analysis_loop
    \/ csi_rx_analysis_loop
    \/ handler
    \/ rx_stop

Spec == Init /\ [][Next]_vars

----------------------------------------------------------------------------
(* data_modem.py: demodulate_dbpsk_robust as a loop over the offsets *)

\* variant: an offset with fewer than 60 symbols is tried again
demodulate_step_stuck ==
    /\ mpc = "loop"
    /\ offset < SPS
    /\ \E r \in {DemodOffset(rx_chunk, offset)} :
       LET old  == [text |-> best_text, score |-> best_score]
           best == IF r.ok THEN KeepBest(old, r.text) ELSE old
       IN /\ best_text' = best.text
          /\ best_score' = best.score
          /\ accepted' = IF r.ok
                         THEN Append(accepted, [offset |-> offset, text |-> r.text])
                         ELSE accepted
    /\ offset' = IF Len(Strided(rx_chunk, offset)) < MIN_SYMBOLS
                 THEN offset ELSE offset + OFFSET_STEP
    /\ UNCHANGED <<mathVars, cancelVars, detVars, loopVars, message, rx_chunk, mpc>>

\* one pass of "for offset in range(0, SPS, 10)" (lines 100-165)
demodulate_step ==
    /\ mpc = "loop"
    /\ offset < SPS
    /\ \E r \in {DemodOffset(rx_chunk, offset)} :
       LET old  == [text |-> best_text, score |-> best_score]
           best == IF r.ok THEN KeepBest(old, r.text) ELSE old
       IN /\ best_text' = best.text
          /\ best_score' = best.score
          /\ accepted' = IF r.ok
                         THEN Append(accepted, [offset |-> offset, text |-> r.text])
                         ELSE accepted
    /\ offset' = offset + OFFSET_STEP
    /\ UNCHANGED <<mathVars, cancelVars, detVars, loopVars, message, rx_chunk, mpc>>

\* return best_text (line 167)
demodulate_return ==
    /\ mpc = "loop"
    /\ offset >= SPS
    /\ mpc' = "returned"
    /\ UNCHANGED <<mathVars, cancelVars, detVars, loopVars, message, rx_chunk, offset, best_text, best_score, accepted>>

NextModem ==
    \/ demodulate_step
    \/ demodulate_return

\* the detectors do not run while the modem is looked at
DetectorsIdle ==
    /\ app = "data_modem"
    /\ RUNNING = TRUE
    /\ pc = "done"
    /\ stop_cmds = 0
    /\ rx = NoBlock
    /\ out = NoOut
    /\ frame_count = 0
    /\ cal_frames = <<>>
    /\ baseline_cfr = None
    /\ adaptive_threshold = FALLBACK_THRESHOLD
    /\ cal_frames_ch0 = <<>>
    /\ cal_frames_ch1 = <<>>
    /\ baseline_cfr_ch0 = None
    /\ baseline_cfr_ch1 = None
    /\ qualified = 0
    /\ decisions = 0
    /\ tx_pc = "off"
    /\ cancel = NoCancel

\* the entry of demodulate_dbpsk_robust (lines 95-96)
DemodEntry ==
    /\ mpc = "loop"
    /\ offset = 0
    /\ best_text = <<>>
    /\ best_score = -1
    /\ accepted = <<>>
    /\ call = NoCall
    /\ ret = NoRet

\* a printable text of 100 characters
Text100 == [i \in 1..MAX_MSG_LEN |-> PRINTABLE_MIN + ((i * 7) % 95)]

Texts == {MESSAGE, <<PRINTABLE_MAX>>, Text100}

\* what the samples in front of the waveform hold: silence, or a carrier
\* half a turn away from the pilot
PadValues == {ZeroSample, <<-AMPLITUDE, 0>>}

\* modulate_dbpsk of every text of the round trip
TxSymbols == [text \in Texts |-> modulate_dbpsk(text)]

\* modulate, put k samples in front, demodulate
InitRoundTrip ==
    /\ DetectorsIdle
    /\ LoopsIdle
    /\ DemodEntry
    /\ \E text \in Texts, k \in 0..(SPS - 1), pv \in PadValues :
        /\ message = text
        /\ rx_chunk = Chunk(k + SPS * Len(TxSymbols[text]), k, pv,
                            TxSymbols[text], <<>>)

SpecRoundTrip == InitRoundTrip /\ [][NextModem]_vars

\* the offsets the loop visits
CandidateOffsets == {o \in 0..(SPS - 1) : o % OFFSET_STEP = 0}

\* the symbols one sampling phase of a chunk of CHUNK_LEN samples holds
Lane(symbols) == SubSeq(symbols, 1, Min2(Len(symbols), CHUNK_LEN \div SPS))

\* streams a sampling phase may carry: frames of a short text, of a text
\* with unprintable characters, of MESSAGE, a frame that does not fit the
\* chunk, and a stream that turns its phase at every symbol
Streams ==
    [short |-> Lane(modulate_dbpsk(<<72, 105>>)),
     mixed |-> Lane(modulate_dbpsk(<<72, 7, 105, 10, 33>>)),
     long  |-> Lane(modulate_dbpsk(MESSAGE)),
     cut   |-> Lane(modulate_dbpsk(Text100)),
     noise |-> [j \in 1..(CHUNK_LEN \div SPS) |->
                   IF j % 2 = 0 THEN <<AMPLITUDE, 0>> ELSE <<-AMPLITUDE, 0>>]]

\* the sampling phases that may carry a stream
LanePhases == {o \in CandidateOffsets : o < NumLanes * OFFSET_STEP}

\* sample i of a block of noise: amplitude and phase change from sample to
\* sample without order
NoiseSample(seed, i) ==
    LET x == (seed * 7919 + i * 1031 + (i \div SPS) * (i \div SPS) * 31 + (i % SPS) * 17) % 257
    IN <<(x % 19) - 9, ((x \div 19) % 13) - 6>>

\* a chunk of CHUNK_LEN samples of noise
NoiseChunk(seed) ==
    Chunk(CHUNK_LEN, 0, ZeroSample, <<>>,
          [r \in 0..(SPS - 1) |->
              [j \in 1..(CHUNK_LEN \div SPS) |-> NoiseSample(seed, r + SPS * (j - 1))]])

NoiseChunks == {NoiseChunk(seed) : seed \in 1..NumSeeds}

\* the lengths of the chunks: empty, too short for 60 symbols at the later
\* offsets, just 60 symbols at every offset, and the chunk of rx_thread
ChunkLens == {0, SPS * (MIN_SYMBOLS - 1) + SPS \div 2, SPS * MIN_SYMBOLS, CHUNK_LEN}

\* a chunk, silent except that each of the sampling phases of LanePhases
\* may carry one of the streams; or a chunk of noise
InitInterleaved ==
    /\ DetectorsIdle
    /\ LoopsIdle
    /\ DemodEntry
    /\ message = <<>>
    /\ \/ \E n \in ChunkLens, pick \in [LanePhases -> DOMAIN Streams \cup {"silent"}] :
            rx_chunk = Chunk(n, 0, ZeroSample, <<>>,
                             [r \in {o \in LanePhases : pick[o] # "silent"} |->
                                 Streams[pick[r]]])
       \/ rx_chunk \in NoiseChunks

SpecBestOffset == InitInterleaved /\ [][NextModem]_vars

\* the call runs on: a pass of the loop or the return that can be taken is
\* taken
SpecDemodFair == InitInterleaved /\ [][NextModem]_vars /\ WF_vars(NextModem)

----------------------------------------------------------------------------
(* The numeric functions: delay spread, angle of arrival, steering phase,  *)
(* beamforming.  A function is applied to arguments held in call and its   *)
(* result is left in ret.                                                  *)

\* sample rates in Hz
SampleRates == {1000000, 5000000}

\* rms_delay = 0.0 and coherence_bw = sample_rate of a channel without spread
\* variant: half the sample rate is reported
FlatChannel_nyquist(sample_rate) ==
    [rms_delay_ns |-> 0, coherence_bw_khz |-> (sample_rate \div 2) \div 1000]

FlatChannel(sample_rate) ==
    [rms_delay_ns |-> 0, coherence_bw_khz |-> sample_rate \div 1000]

\* pdp = np.abs(cir_window)**2, cir_window given by the magnitudes of its taps
Pdp(cir_window) == [i \in 1..Len(cir_window) |-> cir_window[i] * cir_window[i]]

\* np.where(pdp > np.max(pdp) * 0.1)[0], indices from 0
ValidIndices(pdp) ==
    LET peak == MaxOf(pdp)
    IN {i \in 0..(Len(pdp) - 1) : 10 * pdp[i + 1] > peak}

\* sum of f over the set S of indices
RECURSIVE SumOver(_, _)
SumOver(f, S) ==
    IF S = {} THEN 0
    ELSE LET i == CHOOSE j \in S : TRUE IN f[i] + SumOver(f, S \ {i})

\* the delay spread part of calculate_csi_metrics; delays are held in
\* hundredths of a sample period, rms_delay is returned in ns
DelaySpread(cir_window, sample_rate) ==
    LET pdp == Pdp(cir_window)
        valid_indices == ValidIndices(pdp)
    IN IF Cardinality(valid_indices) < 2 THEN FlatChannel(sample_rate)
       ELSE LET first_path == CHOOSE i \in valid_indices :
                                  \A j \in valid_indices : i <= j
                delays == [i \in valid_indices |-> 100 * (i - first_path)]
                total_power == SumOver([i \in valid_indices |-> pdp[i + 1]],
                                       valid_indices)
                mean_delay ==
                    SumOver([i \in valid_indices |-> pdp[i + 1] * delays[i]],
                            valid_indices) \div total_power
                rms_delay ==
                    ISqrt(SumOver([i \in valid_indices |->
                                      pdp[i + 1] * (delays[i] - mean_delay)
                                                 * (delays[i] - mean_delay)],
                                  valid_indices) \div total_power)
            IN IF rms_delay * 10000 > sample_rate \div 1000000
               THEN [rms_delay_ns |-> (rms_delay * 10000) \div (sample_rate \div 1000),
                     coherence_bw_khz |-> ((sample_rate * 20) \div rms_delay) \div 1000]
               ELSE FlatChannel(sample_rate)

\* a window of CSI_WIN_SIZE taps, all zero but the given ones
Taps(set) ==
    [i \in 1..CSI_WIN_SIZE |->
        IF \E t \in set : t[1] = i - 1 THEN (CHOOSE t \in set : t[1] = i - 1)[2]
        ELSE 0]

\* magnitudes of a tap; an echo of magnitude 1 is below a tenth of the power
\* of a tap of magnitude 4
TapMags == {1, 2, 4}

\* distance of the echo from the first tap
EchoGaps == {1, 7}

\* the windows handed to the metric extractor: silence, one tap at any place,
\* and a tap followed by an echo
CirWindows ==
    {Taps({})}
    \cup {Taps({<<p, m>>}) : p \in 0..(CSI_WIN_SIZE - 1), m \in TapMags}
    \cup {Taps({<<p, m>>, <<p + g, e>>}) :
             p \in {0, CSI_WIN_SIZE \div 2}, m \in TapMags, g \in EchoGaps,
             e \in TapMags}

\* the taps that are not zero
NonZeroTaps(cir_window) == {i \in 1..Len(cir_window) : cir_window[i] # 0}

calculate_csi_metrics_call ==
    /\ call.fn = "calculate_csi_metrics"
    /\ ret = NoRet
    /\ ret' = [kind |-> "csi_metrics"] @@ DelaySpread(call.cir_window, call.sample_rate)
    /\ UNCHANGED <<call, detVars, loopVars, modemVars, cancelVars>>

ModemIdle ==
    /\ message = <<>>
    /\ rx_chunk = NoChunk
    /\ mpc = "idle"
    /\ offset = 0
    /\ best_text = <<>>
    /\ best_score = -1
    /\ accepted = <<>>

InitCsiMetrics ==
    /\ DetectorsIdle
    /\ LoopsIdle
    /\ ModemIdle
    /\ ret = NoRet
    /\ \E w \in CirWindows, r \in SampleRates :
           call = [fn |-> "calculate_csi_metrics", cir_window |-> w,
                   sample_rate |-> r]

SpecCsiMetrics == InitCsiMetrics /\ [][calculate_csi_metrics_call]_vars


(* Real numbers are held on a grid of 1/FIX: a sample 1.0 is FIX, an angle  *)
(* of one radian is FIX, a complex number is the pair <<re, im>>.           *)
FIX == 10000

\* np.pi on the grid
PI == 31416
TWO_PI == 2 * PI
HALF_PI == PI \div 2

\* a / b rounded to the nearest integer, b > 0
RoundDiv(a, b) == (2 * a + b) \div (2 * b)

\* sin of an angle in 0..HALF_PI by its series up to the ninth power
SinSeries(x) ==
    LET x2 == (x * x) \div FIX
        t4 == FIX - x2 \div 72
        t3 == FIX - ((x2 * t4) \div FIX) \div 42
        t2 == FIX - ((x2 * t3) \div FIX) \div 20
        t1 == FIX - ((x2 * t2) \div FIX) \div 6
    IN RoundDiv(x * t1, FIX)

\* an angle brought into -PI..PI
WrapPi(x) == ((x + PI) % TWO_PI) - PI

\* np.sin
Sin(x) ==
    LET w == WrapPi(x)
        a == Abs(w)
        r == IF a > HALF_PI THEN PI - a ELSE a
    IN IF w < 0 THEN -SinSeries(r) ELSE SinSeries(r)

\* np.cos
Cos(x) == Sin(x + HALF_PI)

\* the largest t in lo..hi with tan(t) <= num / den
RECURSIVE AtanSearch(_, _, _, _)
AtanSearch(num, den, lo, hi) ==
    IF lo >= hi THEN lo
    ELSE LET mid == (lo + hi + 1) \div 2
         IN IF Sin(mid) * den <= Cos(mid) * num
            THEN AtanSearch(num, den, mid, hi)
            ELSE AtanSearch(num, den, lo, mid - 1)

\* np.angle(z): atan2(im, re), in (-PI, PI], 0 for z = 0
Angle(z) ==
    LET k  == Max2(Abs(z[1]), Abs(z[2])) \div 100000 + 1
        re == z[1] \div k
        im == z[2] \div k
        a  == Abs(re)
        b  == Abs(im)
        t  == IF a = 0 /\ b = 0 THEN 0
              ELSE IF b <= a THEN AtanSearch(b, a, 0, HALF_PI \div 2)
              ELSE HALF_PI - AtanSearch(a, b, 0, HALF_PI \div 2)
        u  == IF z[1] < 0 THEN PI - t ELSE t
    IN IF z[2] < 0 THEN -u ELSE u

\* np.arcsin: nan outside of [-1, 1], else atan2(a, sqrt(1 - a*a))
Arcsin(a) ==
    IF a < -FIX \/ a > FIX THEN [nan |-> TRUE, val |-> 0]
    ELSE [nan |-> FALSE, val |-> Angle(<<ISqrt(FIX * FIX - a * a), a>>)]

\* np.exp(1j * phase)
CExp(phase) == <<Cos(phase), Sin(phase)>>

\* a * b of complex numbers, on the grid of 1/(FIX*FIX)
CMulExact(a, b) ==
    <<a[1] * b[1] - a[2] * b[2], a[1] * b[2] + a[2] * b[1]>>

\* a * b of complex numbers, brought back to the grid
CMul(a, b) ==
    <<RoundDiv(a[1] * b[1] - a[2] * b[2], FIX),
      RoundDiv(a[1] * b[2] + a[2] * b[1], FIX)>>

\* np.conj

Conj(a) == <<a[1], -a[2]>>

\* np.mean of an array of complex numbers
CMean(v) ==
    <<SumSeq([i \in 1..Len(v) |-> v[i][1]]) \div Len(v),
      SumSeq([i \in 1..Len(v) |-> v[i][2]]) \div Len(v)>>

\* np.radians and np.degrees; degrees are held in hundredths
Radians(angle_cdeg) == RoundDiv(angle_cdeg * PI, 18000)
Degrees(theta_rad) == RoundDiv(theta_rad * 18000, PI)

(* mimo_direction_finding.py.  FREQ is held in units of 10 kHz and lengths  *)
(* in units of 0.1 mm, so that 3e8 / FREQ is the wavelength in 0.1 mm.      *)
FREQ == 43392
ANTENNA_SPACING_METERS == 1630
SPEED_OF_LIGHT == 300000000

\* wavelength = 3e8 / frequency
Wavelength(frequency) == RoundDiv(SPEED_OF_LIGHT, frequency)

\* np.angle(np.mean(ch1 * np.conj(ch0)))
\* variant: the channels are exchanged
PhaseDifference_swapped(ch0, ch1) ==
    Angle(CMean([i \in 1..Len(ch0) |-> CMulExact(ch0[i], Conj(ch1[i]))]))

PhaseDifference(ch0, ch1) ==
    Angle(CMean([i \in 1..Len(ch0) |-> CMulExact(ch1[i], Conj(ch0[i]))]))

\* arg = max(-1.0, min(1.0, arg))
\* variant: the argument is passed on as it is
Clamp_none(arg) == arg

Clamp(arg) == Max2(-FIX, Min2(FIX, arg))

\* calculate_aoa; CALIBRATION_PHASE_OFFSET is a setting of the script and is
\* taken as an argument here; theta_deg is returned in hundredths of a degree
calculate_aoa(ch0, ch1, CALIBRATION_PHASE_OFFSET) ==
    LET raw_phase  == PhaseDifference(ch0, ch1)
        phase_diff == ((raw_phase - CALIBRATION_PHASE_OFFSET + PI) % TWO_PI) - PI
        wavelength == Wavelength(FREQ)
        unclamped  == RoundDiv(phase_diff * wavelength,
                               RoundDiv(TWO_PI * ANTENNA_SPACING_METERS, FIX))
        arg        == Clamp(unclamped)
        theta_rad  == Arcsin(arg)
    IN [kind |-> "aoa", raw_phase |-> raw_phase, phase_diff |-> phase_diff,
        unclamped |-> unclamped, arg |-> arg, nan |-> theta_rad.nan,
        theta_deg |-> Degrees(theta_rad.val)]

\* calculate_steering_phase
calculate_steering_phase(angle_deg, frequency, spacing_meters) ==
    LET wavelength == Wavelength(frequency)
        theta_rad  == Radians(angle_deg)
    IN RoundDiv(RoundDiv(TWO_PI * spacing_meters, wavelength) * Sin(theta_rad),
                FIX)

\* the samples the blocks of the direction finder are made of
DfSamples == {<<5000, 0>>, <<0, 5000>>, <<-5000, 0>>, <<3000, -4000>>,
              <<-5000, -1>>, <<0, 0>>}

\* blocks of two samples
DfBlocks == {<<a, b>> : a \in DfSamples, b \in {<<5000, 0>>, <<-4000, 3000>>, <<0, 0>>}}

\* power = np.mean(np.abs(ch0_data)**2) > 0.005 of run_mimo_loop
SignalPresent(ch0_data) ==
    SumSeq([i \in 1..Len(ch0_data) |->
               ch0_data[i][1] * ch0_data[i][1] + ch0_data[i][2] * ch0_data[i][2]])
        \div Len(ch0_data) > 500000

\* settings of CALIBRATION_PHASE_OFFSET
CalOffsets == {0, HALF_PI, -PI, 3 * PI + 1}

\* the true angles of the round trip, in hundredths of a degree
Thetas == {-6000, -3000, 0, 3000, 6000}

\* ch1 leads ch0 by phase
Lead(ch0, phase) == [i \in 1..Len(ch0) |-> CMul(ch0[i], CExp(phase))]

\* the steering phase of angle_deg is computed and channel 1 is made to lead
\* channel 0 by it
calculate_steering_phase_call ==
    /\ call.fn = "calculate_steering_phase"
    /\ ret = NoRet
    /\ \E phase_rad \in {calculate_steering_phase(call.angle_deg, FREQ,
                                                   ANTENNA_SPACING_METERS)} :
        call' = [fn |-> "calculate_aoa", ch0 |-> call.ch0,
                 ch1 |-> Lead(call.ch0, phase_rad), offset |-> 0,
                 angle_deg |-> call.angle_deg, phase_rad |-> phase_rad]
    /\ UNCHANGED <<ret, detVars, loopVars, modemVars, cancelVars>>

calculate_aoa_call ==
    /\ call.fn = "calculate_aoa"
    /\ ret = NoRet
    /\ ret' = calculate_aoa(call.ch0, call.ch1, call.offset)
    /\ UNCHANGED <<call, detVars, loopVars, modemVars, cancelVars>>

NextAoa ==
    \/ calculate_steering_phase_call
    \/ calculate_aoa_call

\* the estimator is applied to any two blocks under any offset, or to two
\* blocks made for a true angle
InitAoa ==
    /\ DetectorsIdle
    /\ LoopsIdle
    /\ ModemIdle
    /\ ret = NoRet
    /\ \/ \E ch0 \in DfBlocks, ch1 \in DfBlocks, o \in CalOffsets :
              call = [fn |-> "calculate_aoa", ch0 |-> ch0, ch1 |-> ch1,
                      offset |-> o, angle_deg |-> 0, phase_rad |-> 0]
       \/ \E ch0 \in {b \in DfBlocks : SignalPresent(b)}, theta \in Thetas :
              call = [fn |-> "calculate_steering_phase", ch0 |-> ch0,
                      angle_deg |-> theta]

SpecAoa == InitAoa /\ [][NextAoa]_vars


(* beamformer.py: args.freq in units of 10 kHz, ANTENNA_SPACING in 0.1 mm *)
BF_FREQ == 241200
ANTENNA_SPACING == 625

\* weight = np.exp(-1j * total_phase)
\* variant: channel 1 is advanced instead of delayed
Weight_advance(total_phase) == CExp(total_phase)

Weight(total_phase) == CExp(-total_phase)

\* apply_beamforming
apply_beamforming(ch0_samples, ch1_samples, steering_phase_rad, cal_offset_rad) ==
    LET total_phase == steering_phase_rad + cal_offset_rad
        weight      == Weight(total_phase)
    IN [i \in 1..Len(ch0_samples) |->
           LET s == CMul(ch1_samples[i], weight)
           IN <<RoundDiv((ch0_samples[i][1] + s[1]) * 707, 1000),
                RoundDiv((ch0_samples[i][2] + s[2]) * 707, 1000)>>]

\* np.max(np.abs(x)**2), on the grid of 1/(FIX*FIX)
MaxPower(x) == MaxOf([i \in 1..Len(x) |-> x[i][1] * x[i][1] + x[i][2] * x[i][2]])

\* one pass of the loop of run_beamformer for the block in call: the weight
\* of the next angle of the sweep is applied and the power is measured
run_beamformer_step ==
    /\ call.fn = "apply_beamforming"
    /\ call.angles # <<>>
    /\ \E angle_deg \in {Head(call.angles)} :
       \E steer_phase \in {calculate_steering_phase(angle_deg, BF_FREQ,
                                                    ANTENNA_SPACING)} :
       \E beam_signal \in {apply_beamforming(call.ch0, call.ch1, steer_phase,
                                              call.calibration_offset)} :
          ret' = [kind |-> "beam",
                  pwr_ch0 |-> MaxPower(call.ch0),
                  pwr_ch1 |-> MaxPower(call.ch1),
                  pwr_beam |-> (IF ret.kind = "beam" THEN ret.pwr_beam ELSE <<>>)
                                   \o <<MaxPower(beam_signal)>>]
    /\ call' = [call EXCEPT !.angles = Tail(call.angles)]
    /\ UNCHANGED <<detVars, loopVars, modemVars, cancelVars>>

\* true angles for which the angle 45 degrees further on is in front of the
\* array as well: -90, -75, ..., 45 degrees
BfThetas == {1500 * k - 9000 : k \in 0..9}

\* hardware offsets between the two channels
BfCalOffsets == {0, 7000, -PI}

\* channel 1 leads channel 0 by the steering phase of theta plus the offset;
\* the sweep visits theta and then theta + 45 degrees
InitBeamformer ==
    /\ DetectorsIdle
    /\ LoopsIdle
    /\ ModemIdle
    /\ ret = NoRet
    /\ \E ch0 \in DfBlocks, theta \in BfThetas, cal \in BfCalOffsets :
           call = [fn |-> "apply_beamforming", ch0 |-> ch0,
                   ch1 |-> Lead(ch0, calculate_steering_phase(theta, BF_FREQ,
                                         ANTENNA_SPACING) + cal),
                   theta |-> theta, calibration_offset |-> cal,
                   angles |-> <<theta, theta + 4500>>]

SpecBeamformer == InitBeamformer /\ [][run_beamformer_step]_vars

----------------------------------------------------------------------------
(* Cooperative cancellation.  The while test of a receive loop and the body *)
(* of the loop are separate steps here, so that the signal handler can run *)
(* while an iteration is in progress; the transmit thread runs alongside.  *)

\* what the history counts up to
MaxAfterClear == 2

\* counting a step that was taken after the flag was cleared
Count(n) == IF cancel.cleared THEN Min2(n + 1, MaxAfterClear) ELSE n

\* blocks the radio delivers while the cancellation is looked at
CancelSisoIds == {"good0", "overflow"}
CancelMimoIds == {"m_good0", "m_overflow"}

\* while RUNNING: the test passes and an iteration begins
\* variant: the loop does not look at the flag
rx_while_deaf ==
    /\ pc = "loop"
    /\ pc' = "body"
    /\ cancel' = [cancel EXCEPT !.entered = Count(@)]
    /\ UNCHANGED <<app, RUNNING, stop_cmds, rx, out, frame_count, sisoVars,
                   mimoVars, qualified, decisions, modemVars, loopVars, mathVars, tx_pc>>

rx_while ==
    /\ pc = "loop"
    /\ RUNNING
    /\ pc' = "body"
    /\ cancel' = [cancel EXCEPT !.entered = Count(@)]
    /\ UNCHANGED <<app, RUNNING, stop_cmds, rx, out, frame_count, sisoVars,
                   mimoVars, qualified, decisions, modemVars, loopVars, mathVars, tx_pc>>

\* recv() and the rest of the iteration, back to the while test
rx_iteration ==
    /\ pc = "body"
    /\ \/ rx_analysis_body(CancelSisoIds)
       \/ rx_mimo_analysis_body(CancelMimoIds)
       \/ csi_rx_analysis_body(CancelSisoIds)
    /\ pc' = "loop"
    /\ cancel' = [cancel EXCEPT !.finished = Count(@)]
    /\ UNCHANGED tx_pc

\* PeriodicTransmitter.run, tx_daemon: while self.handler.running
tx_while ==
    /\ tx_pc = "while"
    /\ tx_pc' = IF RUNNING THEN "send" ELSE "done"
    /\ UNCHANGED <<detVars, loopVars, modemVars, mathVars, cancel>>

\* tx_streamer.send: the frame goes out, or send raises and the exception is
\* swallowed
tx_send ==
    /\ tx_pc = "send"
    /\ \E raised \in BOOLEAN :
        IF raised THEN tx_pc' = "while" /\ UNCHANGED cancel
        ELSE /\ tx_pc' = "sleep"
             /\ cancel' = [cancel EXCEPT !.sent = Count(@)]
    /\ UNCHANGED <<detVars, loopVars, modemVars, mathVars>>

\* time.sleep(self.interval)
tx_sleep ==
    /\ tx_pc = "sleep"
    /\ tx_pc' = "while"
    /\ UNCHANGED <<detVars, loopVars, modemVars, mathVars, cancel>>

RxThread ==
    \/ rx_while
    \/ rx_iteration
    \/ rx_stop

NextCancel ==
    \/ rx_while
    \/ rx_iteration
    \/ rx_stop
    \/ handler
    \/ tx_while
    \/ tx_send
    \/ tx_sleep

\* the script has started its transmit thread and entered its receive loop
InitCancel ==
    /\ LoopsIdle
    /\ app \in Apps
    /\ RUNNING = TRUE
    /\ pc = "loop"
    /\ stop_cmds = 0
    /\ rx = NoBlock
    /\ out = NoOut
    /\ frame_count = 0
    /\ cal_frames = <<>>
    /\ baseline_cfr = None
    /\ adaptive_threshold = FALLBACK_THRESHOLD
    /\ cal_frames_ch0 = <<>>
    /\ cal_frames_ch1 = <<>>
    /\ baseline_cfr_ch0 = None
    /\ baseline_cfr_ch1 = None
    /\ qualified = 0
    /\ decisions = 0
    /\ ModemIdle
    /\ call = NoCall
    /\ ret = NoRet
    /\ tx_pc = "while"
    /\ cancel = NoCancel

\* recv() returns within its timeout, so the receive thread always gets on
SpecCancel ==
    InitCancel /\ [][NextCancel]_vars /\ WF_vars(RxThread)

----------------------------------------------------------------------------
(* Streams as the receiver may see them: the preamble disturbed, the sync  *)
(* symbol early or late.                                                   *)

\* the bits of a frame whose first k bits are turned and whose sync bit is
\* bit s (from 0)
FrameBits(k, s, text) ==
    LET bits == text_to_bits(<<Len(text)>> \o text)
    IN [i \in 1..(s + 1 + Len(bits)) |->
           IF i <= k THEN 1
           ELSE IF i <= s THEN 0
           ELSE IF i = s + 1 THEN 1
           ELSE bits[i - s - 1]]

\* a stream of symbols whose differential detection gives bits
FromBits(bits) ==
    SubSeq([j \in 1..(Len(bits) + 1) |->
               IF Flips(bits, j - 1) % 2 = 0 THEN <<AMPLITUDE, 0>>
               ELSE <<-AMPLITUDE, 0>>], 1, Len(bits) + 1)

\* the frame of modulate_dbpsk with 8 and with 9 bits of its preamble
\* turned; frames whose sync bit is bit 44, 45, 59 and 60; a carrier
\* without any turn
GateStreams ==
    [clean  |-> FromBits(FrameBits(0, PILOT_SYMBOLS - 1, <<72, 105>>)),
     turn8  |-> FromBits(FrameBits(PREAMBLE_SPAN - PREAMBLE_MIN_ZEROS,
                                   PILOT_SYMBOLS - 1, <<72, 105>>)),
     turn9  |-> FromBits(FrameBits(PREAMBLE_SPAN - PREAMBLE_MIN_ZEROS + 1,
                                   PILOT_SYMBOLS - 1, <<72, 105, 33>>)),
     sync44 |-> FromBits(FrameBits(0, SYNC_WINDOW_START - 1, <<72, 105>>)),
     sync45 |-> FromBits(FrameBits(0, SYNC_WINDOW_START, <<72, 105>>)),
     sync59 |-> FromBits(FrameBits(0, SYNC_WINDOW_END - 1, <<79, 75>>)),
     sync60 |-> FromBits(FrameBits(0, SYNC_WINDOW_END, <<72, 105>>)),
     steady |-> FromBits([i \in 1..(2 * MIN_SYMBOLS) |-> 0])]

\* a chunk of rx_thread, silent except that each of the sampling phases of
\* LanePhases may carry one of these streams
InitGate ==
    /\ DetectorsIdle
    /\ LoopsIdle
    /\ DemodEntry
    /\ message = <<>>
    /\ \E pick \in [LanePhases -> DOMAIN GateStreams \cup {"silent"}] :
           rx_chunk = Chunk(CHUNK_LEN, 0, ZeroSample, <<>>,
                            [r \in {o \in LanePhases : pick[o] # "silent"} |->
                                GateStreams[pick[r]]])

SpecGate == InitGate /\ [][NextModem]_vars

----------------------------------------------------------------------------
(* Frames as the receiver may see them: the length byte at its limits, the *)
(* payload cut by the end of the array.                                    *)

\* a printable text of n characters
TextOf(n) == [i \in 1..n |-> PRINTABLE_MIN + ((i * 7) % 95)]

\* the longest text that fits a chunk of rx_thread when the sync bit is
\* found at bit s: payload_end = s + 1 + 8 + 8*n <= CHUNK_LEN / SPS - 1
FitLen(s) == (CHUNK_LEN \div SPS - 1 - (s + 9)) \div 8

\* the frames of the empty text and of a text of one character; a text of
\* 18 characters whose last bit is the last bit of a chunk of rx_thread and
\* the same frame one bit later; a frame whose sync bit comes late
FramingStreams ==
    [empty |-> modulate_dbpsk(<<>>),
     one   |-> modulate_dbpsk(<<65>>),
     fit   |-> Lane(FromBits(FrameBits(0, SYNC_WINDOW_START + 1,
                                       TextOf(FitLen(SYNC_WINDOW_START + 1))))),
     cut   |-> Lane(FromBits(FrameBits(0, SYNC_WINDOW_START + 2,
                                       TextOf(FitLen(SYNC_WINDOW_START + 1))))),
     late  |-> FromBits(FrameBits(0, SYNC_WINDOW_END - 5, <<79, 75>>))]

\* the frames of texts of 100 and of 101 characters
LongStreams ==
    [hundred |-> modulate_dbpsk(TextOf(MAX_MSG_LEN)),
     over    |-> modulate_dbpsk(TextOf(MAX_MSG_LEN + 1))]

\* chunks of 60 symbols and of rx_thread
FramingLens == {SPS * MIN_SYMBOLS, CHUNK_LEN}

\* arrays that hold the frame of 100 characters less one symbol, that
\* frame exactly, and the frame of 101 characters exactly
LongLens == {SPS * (Len(LongStreams.hundred) - 1), SPS * Len(LongStreams.hundred),
             SPS * Len(LongStreams.over)}

\* an array, silent except that each of the sampling phases of LanePhases
\* may carry one of the frames; or a long array with a long frame at
\* sampling phase 0
InitFraming ==
    /\ DetectorsIdle
    /\ LoopsIdle
    /\ DemodEntry
    /\ message = <<>>
    /\ \/ \E n \in FramingLens,
             pick \in [LanePhases -> DOMAIN FramingStreams \cup {"silent"}] :
            rx_chunk = Chunk(n, 0, ZeroSample, <<>>,
                             [r \in {o \in LanePhases : pick[o] # "silent"} |->
                                 FramingStreams[pick[r]]])
       \/ \E n \in LongLens, name \in DOMAIN LongStreams :
            rx_chunk = Chunk(n, 0, ZeroSample, <<>>, [r \in {0} |-> LongStreams[name]])

SpecFraming == InitFraming /\ [][NextModem]_vars

----------------------------------------------------------------------------
(* modulate_dbpsk as a function: the text is held in call and the waveform *)
(* is left in ret.                                                         *)

\* texts of every length up to MaxTextLen are modulated
MaxTextLen == 40

\* a text of n characters with codes from all of 0..255
TextWith(n, k) == [i \in 1..n |-> (i * (2 * k + 1) * 37 + k * 101) % 256]

\* the lengths of the texts: the short ones, the sanity bound of the
\* receiver, and the longest a length byte can count
TextLens == 0..MaxTextLen \cup {MAX_MSG_LEN, 254, 255}

ModulatedTexts == {MESSAGE} \cup {TextWith(n, k) : n \in TextLens, k \in 1..NumSeeds}

\* tx_signal = np.repeat(symbols, SPS) * 0.7
Waveform(symbols) == Chunk(SPS * Len(symbols), 0, ZeroSample, symbols, <<>>)

modulate_dbpsk_call ==
    /\ call.fn = "modulate_dbpsk"
    /\ ret = NoRet
    /\ ret' = [kind |-> "tx_signal", tx_signal |-> Waveform(modulate_dbpsk(call.text))]
    /\ UNCHANGED <<call, detVars, loopVars, modemVars, cancelVars>>

InitModulate ==
    /\ DetectorsIdle
    /\ LoopsIdle
    /\ ModemIdle
    /\ ret = NoRet
    /\ \E text \in ModulatedTexts : call = [fn |-> "modulate_dbpsk", text |-> text]

SpecModulate == InitModulate /\ [][modulate_dbpsk_call]_vars

----------------------------------------------------------------------------
(* beamformer.py: the loop of run_beamformer.  Angles are held in          *)
(* hundredths of a degree; a power p is held on the grid of 1/(FIX*FIX),   *)
(* and 10*log10(p + 1e-12) > x is modelled by the equivalent bound on p.   *)

SCAN_SPEED == 200
SCAN_LIMIT == 6000
\* pwr_db_omn > -35
CALIBRATION_POWER == 31622
\* peak_pwr > PEAK_THRESHOLD
PEAK_POWER == 10000
\* abs(best_angle) >= 58.0
EDGE_ANGLE == 5800

\* after an evaluation of the sweep only the first MaxVaried measurements
\* may be of a block other than the usual one or go without a display tick
MaxVaried == 1

\* what recv() leaves behind: metadata.error_code, samps and the samples of
\* the two channels
BeamBlk(e, n, c0, lead) ==
    [error_code |-> e, samps |-> n, ch0 |-> c0, ch1 |-> Lead(c0, lead)]

\* a source seen with a hardware offset of 0.7 rad; the same at another
\* phase; a burst just below and just above -35 dB; an empty read; an error
BeamBlocks ==
    [usual    |-> BeamBlk("none", 2, <<<<5000, 0>>, <<0, 5000>>>>, 7000),
     other    |-> BeamBlk("none", 2, <<<<3000, -4000>>, <<0, 0>>>>, -HALF_PI),
     faint    |-> BeamBlk("none", 1, <<<<177, 0>>>>, -HALF_PI),
     edge     |-> BeamBlk("none", 1, <<<<178, 0>>>>, PI - 1),
     empty    |-> BeamBlk("none", 0, <<>>, 0),
     overflow |-> BeamBlk("overflow", 2, <<<<5000, 0>>, <<0, 5000>>>>, 7000)]

BeamIds == DOMAIN BeamBlocks

BeamState ==
    [calibrated |-> calibrated, calibration_offset |-> calibration_offset,
     current_angle |-> current_angle, scan_direction |-> scan_direction,
     sweep_history |-> sweep_history]

\* variant: every block above -35 dB calibrates
NeedsCalibration_always(st, pwr_ch0) == pwr_ch0 > CALIBRATION_POWER

\* if not calibrated and pwr_db_omn > -35
NeedsCalibration(st, pwr_ch0) == ~st.calibrated /\ pwr_ch0 > CALIBRATION_POWER

\* lines 80-85
Calibrate(st, b) ==
    IF NeedsCalibration(st, MaxPower(b.ch0))
    THEN [st EXCEPT !.calibration_offset = PhaseDifference(b.ch0, b.ch1),
                    !.calibrated = TRUE]
    ELSE st

\* lines 88-94: the power of the beam steered to current_angle
BeamPower(st, b) ==
    MaxPower(apply_beamforming(b.ch0, b.ch1,
                 calculate_steering_phase(st.current_angle, BF_FREQ, ANTENNA_SPACING),
                 st.calibration_offset))

\* lines 101-102
Record(st, pwr_beam) ==
    IF st.calibrated
    THEN [st EXCEPT !.sweep_history = Append(@, <<st.current_angle, pwr_beam>>)]
    ELSE st

NoEvaluation == [kind |-> "none"]

\* lines 133-143: max(sweep_history, key=lambda x: x[1]) is the first of the
\* measurements of greatest power
Evaluate(history) ==
    LET best == CHOOSE i \in 1..Len(history) :
                    /\ \A j \in 1..Len(history) : history[j][2] <= history[i][2]
                    /\ \A j \in 1..(i - 1) : history[j][2] < history[i][2]
        best_angle == history[best][1]
        peak_pwr   == history[best][2]
    IN [kind |-> IF ~(peak_pwr > PEAK_POWER) THEN "weak"
                 ELSE IF Abs(best_angle) >= EDGE_ANGLE THEN "edge"
                 ELSE "router found",
        best_angle |-> best_angle, peak_pwr |-> peak_pwr, history |-> history]

\* variant: the direction is reversed on reaching a limit
Reverse_onlimit(angle, direction) ==
    IF angle <= -SCAN_LIMIT THEN 1
    ELSE IF angle >= SCAN_LIMIT THEN -1
    ELSE direction

\* lines 148-149
Reverse(angle, direction) ==
    IF angle < -SCAN_LIMIT THEN 1
    ELSE IF angle > SCAN_LIMIT THEN -1
    ELSE direction

\* lines 125-149: the sweep logic of a display tick
Sweep(st) ==
    IF ~st.calibrated THEN [st |-> st, evaluation |-> NoEvaluation]
    ELSE LET angle == st.current_angle + SCAN_SPEED * st.scan_direction
             hit_upper_limit == st.scan_direction = 1 /\ angle >= SCAN_LIMIT
             hit_lower_limit == st.scan_direction = -1 /\ angle <= -SCAN_LIMIT
             evaluated == (hit_upper_limit \/ hit_lower_limit)
                              /\ st.sweep_history # <<>>
         IN [st |-> [st EXCEPT !.current_angle = angle,
                               !.scan_direction = Reverse(angle, st.scan_direction),
                               !.sweep_history = IF evaluated THEN <<>> ELSE @],
             evaluation |-> IF evaluated THEN Evaluate(st.sweep_history)
                            ELSE NoEvaluation]

\* the body of the loop for a block with samples (lines 72-151); due says
\* whether 0.05 s have passed since the last update of the display
BeamformerBody(st, b, due) ==
    LET cal      == Calibrate(st, b)
        pwr_beam == BeamPower(cal, b)
        rec      == Record(cal, pwr_beam)
        swept    == IF due THEN Sweep(rec) ELSE [st |-> rec, evaluation |-> NoEvaluation]
    IN [st  |-> swept.st,
        out |-> [kind |-> "beam", pwr_beam |-> pwr_beam,
                 cal_offset |-> cal.calibration_offset, tick |-> due,
                 evaluation |-> swept.evaluation]]

\* one pass of the loop (lines 64-151)
BeamformerIteration(st, b, due) ==
    IF b.error_code # "none" THEN [st |-> st, out |-> [kind |-> "none"]]
    ELSE IF b.samps > 0 THEN BeamformerBody(st, b, due)
    ELSE [st |-> st, out |-> [kind |-> "none"]]

\* what the model lets recv() and the clock do
Admitted(id, due) ==
    \/ ~calibrated
    \/ Len(sweep_history) < MaxVaried
    \/ BeamBlocks[id].error_code # "none"
    \/ BeamBlocks[id].samps = 0
    \/ id = "usual" /\ due

run_beamformer ==
    /\ app = "beamformer"
    /\ pc = "loop"
    /\ RUNNING
    /\ \E id \in BeamIds, due \in BOOLEAN :
        /\ Admitted(id, due)
        /\ rx' = id
        /\ \E step \in {BeamformerIteration(BeamState, BeamBlocks[id], due)} :
            /\ calibrated' = step.st.calibrated
            /\ calibration_offset' = step.st.calibration_offset
            /\ current_angle' = step.st.current_angle
            /\ scan_direction' = step.st.scan_direction
            /\ sweep_history' = step.st.sweep_history
            /\ out' = step.out
    /\ UNCHANGED <<app, RUNNING, pc, stop_cmds, frame_count, sisoVars, mimoVars,
                   qualified, decisions, modemVars, mathVars, cancelVars,
                   loopbackVars>>

NextBeamLoop ==
    \/ run_beamformer
    \/ handler
    \/ rx_stop

\* a receive loop is entered: the flag is set, nothing has been received,
\* and the engines of the presence detectors are not in use
LoopEntry ==
    /\ RUNNING = TRUE
    /\ pc = "loop"
    /\ stop_cmds = 0
    /\ rx = NoBlock
    /\ out = NoOut
    /\ frame_count = 0
    /\ cal_frames = <<>>
    /\ baseline_cfr = None
    /\ adaptive_threshold = FALLBACK_THRESHOLD
    /\ cal_frames_ch0 = <<>>
    /\ cal_frames_ch1 = <<>>
    /\ baseline_cfr_ch0 = None
    /\ baseline_cfr_ch1 = None
    /\ qualified = 0
    /\ decisions = 0

\* lines 48-57
InitBeamLoop ==
    /\ app = "beamformer"
    /\ LoopEntry
    /\ ModemIdle
    /\ call = NoCall
    /\ ret = NoRet
    /\ tx_pc = "off"
    /\ cancel = NoCancel
    /\ calibrated = FALSE
    /\ calibration_offset = 0
    /\ current_angle = -SCAN_LIMIT
    /\ scan_direction = 1
    /\ sweep_history = <<>>
    /\ silence_counter = 0
    /\ MODE_NAME = "Native Continuous"

SpecBeamLoop == InitBeamLoop /\ [][NextBeamLoop]_vars

----------------------------------------------------------------------------
(* loopback_test.py: the loop of run_robust_rx.  A peak amplitude is held  *)
(* in units of 1e-4.  pkts_received and debug_timer only number and time   *)
(* what is printed and are not kept.                                       *)

SILENCE_LIMIT == 20
PEAK_MIN == 100

LoopbackBlk(e, n, p) == [error_code |-> e, samps |-> n, peak |-> p]

\* a pulse, a block of noise at the print threshold, an empty read, and the
\* errors the loop tells apart
LoopbackBlocks ==
    [pulse       |-> LoopbackBlk("none", 50000, 7000),
     hiss        |-> LoopbackBlk("none", 50000, PEAK_MIN),
     empty       |-> LoopbackBlk("none", 0, 0),
     timeout     |-> LoopbackBlk("timeout", 0, 0),
     overflow    |-> LoopbackBlk("overflow", 50000, 7000),
     bad_packet  |-> LoopbackBlk("bad_packet", 0, 0)]

LoopbackIds == DOMAIN LoopbackBlocks

ModeNames == {"Native Continuous", "Manual Burst (Fallback)"}

\* variant: the stream is restarted on the 20th timeout
Watchdog_early(counter) ==
    IF counter + 1 >= SILENCE_LIMIT
    THEN [silence_counter |-> 0, restart |-> TRUE]
    ELSE [silence_counter |-> counter + 1, restart |-> FALSE]

\* lines 116-120
Watchdog(counter) ==
    IF counter + 1 > SILENCE_LIMIT
    THEN [silence_counter |-> 0, restart |-> TRUE]
    ELSE [silence_counter |-> counter + 1, restart |-> FALSE]

\* one pass of the loop (lines 106-148): the counter it leaves, whether the
\* watchdog restarted the stream, and what was printed
RobustRxIteration(counter, b) ==
    IF b.error_code = "overflow"
    THEN [silence_counter |-> counter, restart |-> FALSE, printed |-> "none"]
    ELSE IF b.error_code = "timeout"
    THEN Watchdog(counter)
             @@ [printed |-> IF Watchdog(counter).restart THEN "watchdog" ELSE "none"]
    ELSE IF b.error_code # "none"
    THEN [silence_counter |-> counter, restart |-> FALSE, printed |-> "error"]
    ELSE IF b.samps > 0
    THEN [silence_counter |-> 0, restart |-> FALSE,
          printed |-> IF b.peak > PEAK_MIN THEN "pkt" ELSE "none"]
    ELSE [silence_counter |-> counter, restart |-> FALSE, printed |-> "none"]

\* the number of calls of issue_start_cmd in a pass (lines 106-107, 119)
StartCmds(mode, restart) ==
    (IF mode = "Manual Burst (Fallback)" THEN 1 ELSE 0) + (IF restart THEN 1 ELSE 0)

run_robust_rx ==
    /\ app = "loopback_test"
    /\ pc = "loop"
    /\ RUNNING
    /\ \E id \in LoopbackIds :
        /\ rx' = id
        /\ \E step \in {RobustRxIteration(silence_counter, LoopbackBlocks[id])} :
            /\ silence_counter' = step.silence_counter
            /\ out' = [kind |-> step.printed, restart |-> step.restart,
                       start_cmds |-> StartCmds(MODE_NAME, step.restart)]
    /\ UNCHANGED <<app, RUNNING, pc, stop_cmds, frame_count, sisoVars, mimoVars,
                   qualified, decisions, modemVars, mathVars, cancelVars,
                   beamVars, MODE_NAME>>

NextLoopback ==
    \/ run_robust_rx
    \/ handler
    \/ rx_stop

\* lines 99-103
InitLoopback ==
    /\ app = "loopback_test"
    /\ LoopEntry
    /\ ModemIdle
    /\ call = NoCall
    /\ ret = NoRet
    /\ tx_pc = "off"
    /\ cancel = NoCancel
    /\ calibrated = FALSE
    /\ calibration_offset = 0
    /\ current_angle = -SCAN_LIMIT
    /\ scan_direction = 1
    /\ sweep_history = <<>>
    /\ silence_counter = 0
    /\ MODE_NAME \in ModeNames

SpecLoopback == InitLoopback /\ [][NextLoopback]_vars

----------------------------------------------------------------------------
(* data_modem.py: the loop of rx_thread.  A pass receives a block, looks   *)
(* for a burst in it, and calls demodulate_dbpsk_robust on a chunk cut at  *)
(* the first loud sample; the passes of the demodulator's offset loop are   *)
(* steps of their own, and the report follows the return.  The threshold   *)
(* is held in hundredths.                                                  *)

BUFF_LEN == 50000
TRIGGER_THRESHOLD == 5
TRIGGER_COUNT == 2000

RxBlk(e, data) == [error_code |-> e, samps |-> data.len, data |-> data]

\* a waveform received from the symbol on that leaves the sync bit at the
\* start of the window of the demodulator
Late(symbols) == SubSeq(symbols, PILOT_SYMBOLS - SYNC_WINDOW_START, Len(symbols))

\* a buffer of noise
NoiseBuffer(seed) ==
    Chunk(BUFF_LEN, 0, ZeroSample, <<>>,
          [r \in 0..(SPS - 1) |->
              SubSeq([j \in 1..(BUFF_LEN \div SPS) |-> NoiseSample(seed, r + SPS * (j - 1))],
                     1, BUFF_LEN \div SPS)])

\* what recv may deliver: MESSAGE after some silence; texts of 17 and of 18
\* characters received from their first sample; texts of 18 and of 19
\* characters received from inside the pilot; a text with an unprintable
\* character in the last place a chunk can be cut from, and one place
\* later; a text with no printable character; a burst of 2000 samples; a
\* read as long as a chunk; noise; an empty read; and errors
RxBlocks ==
    [hello    |-> RxBlk("none", Chunk(BUFF_LEN, 10 * SPS, ZeroSample, modulate_dbpsk(MESSAGE), <<>>)),
     fit17    |-> RxBlk("none", Chunk(BUFF_LEN, 0, ZeroSample,
                                      modulate_dbpsk(TextOf(FitLen(PILOT_SYMBOLS - 1))), <<>>)),
     whole18  |-> RxBlk("none", Chunk(BUFF_LEN, 0, ZeroSample,
                                      modulate_dbpsk(TextOf(FitLen(PILOT_SYMBOLS - 1) + 1)), <<>>)),
     late18   |-> RxBlk("none", Chunk(BUFF_LEN, 0, ZeroSample,
                                      Late(modulate_dbpsk(TextOf(FitLen(SYNC_WINDOW_START)))), <<>>)),
     late19   |-> RxBlk("none", Chunk(BUFF_LEN, 0, ZeroSample,
                                      Late(modulate_dbpsk(TextOf(FitLen(SYNC_WINDOW_START) + 1))), <<>>)),
     mixed    |-> RxBlk("none", Chunk(BUFF_LEN, BUFF_LEN - CHUNK_LEN - 1, ZeroSample,
                                      modulate_dbpsk(<<72, 7, 105>>), <<>>)),
     edge     |-> RxBlk("none", Chunk(BUFF_LEN, BUFF_LEN - CHUNK_LEN, ZeroSample,
                                      modulate_dbpsk(<<72, 7, 105>>), <<>>)),
     hidden   |-> RxBlk("none", Chunk(BUFF_LEN, 0, ZeroSample, modulate_dbpsk(<<7, 10>>), <<>>)),
     faint    |-> RxBlk("none", Chunk(BUFF_LEN, 0, ZeroSample,
                                      SubSeq(modulate_dbpsk(MESSAGE), 1, TRIGGER_COUNT \div SPS), <<>>)),
     brief    |-> RxBlk("none", Chunk(CHUNK_LEN, 0, ZeroSample, modulate_dbpsk(MESSAGE), <<>>)),
     noise    |-> RxBlk("none", NoiseBuffer(1)),
     empty    |-> RxBlk("none", NoChunk),
     timeout  |-> RxBlk("timeout", NoChunk),
     overflow |-> RxBlk("overflow", Chunk(BUFF_LEN, 0, ZeroSample, modulate_dbpsk(MESSAGE), <<>>))]

RxIds == DOMAIN RxBlocks

\* magnitudes > threshold for one sample
AboveThreshold(s) == 100 * (s[1] * s[1] + s[2] * s[2]) > TRIGGER_THRESHOLD * TRIGGER_THRESHOLD

\* np.where(magnitudes > threshold)[0]
high_signal_indices(data) == {i \in 0..(data.len - 1) : AboveThreshold(SampleAt(data, i))}

\* high_signal_indices[0]
FirstLoud(data) ==
    CHOOSE i \in 0..(data.len - 1) :
        AboveThreshold(SampleAt(data, i)) /\ \A j \in 0..(i - 1) : ~AboveThreshold(SampleAt(data, j))

\* variant: everything from the first loud sample on is demodulated
PacketChunk_rest(data, start_idx) ==
    LET n == data.len - start_idx
    IN Chunk(n, 0, ZeroSample, <<>>,
             [r \in 0..(SPS - 1) |->
                 SubSeq([j \in 1..((n - r + SPS - 1) \div SPS) |->
                            SampleAt(data, start_idx + r + SPS * (j - 1))],
                        1, (n - r + SPS - 1) \div SPS)])

\* data[start_idx : start_idx + 20000], held by its sampling phases
PacketChunk(data, start_idx) ==
    LET n == Min2(start_idx + CHUNK_LEN, data.len) - start_idx
    IN Chunk(n, 0, ZeroSample, <<>>,
             [r \in 0..(SPS - 1) |->
                 SubSeq([j \in 1..((n - r + SPS - 1) \div SPS) |->
                            SampleAt(data, start_idx + r + SPS * (j - 1))],
                        1, (n - r + SPS - 1) \div SPS)])

\* the trigger of one block (lines 230-244): the number of loud samples,
\* and the chunk when one is cut
Trigger(b) ==
    LET loud == IF b.error_code = "none" /\ b.samps > 0
                THEN Cardinality(high_signal_indices(b.data)) ELSE 0
    IN IF loud > TRIGGER_COUNT
       THEN LET start_idx == FirstLoud(b.data)
            IN IF start_idx + CHUNK_LEN < b.samps
               THEN [loud |-> loud, start_idx |-> start_idx, cut |-> TRUE,
                     packet_chunk |-> PacketChunk(b.data, start_idx)]
               ELSE [loud |-> loud, start_idx |-> start_idx, cut |-> FALSE,
                     packet_chunk |-> NoChunk]
       ELSE [loud |-> loud, start_idx |-> -1, cut |-> FALSE, packet_chunk |-> NoChunk]

\* the trigger of every block that may be received
Triggers == [id \in RxIds |-> Trigger(RxBlocks[id])]

\* the stream commands of a pass (lines 218-219, 225-226)
RxStartCmds(mode, error_code) ==
    (IF mode = "Manual Burst (Fallback)" THEN 1 ELSE 0)
        + (IF error_code \notin {"none", "overflow"} /\ mode # "Manual Burst (Fallback)"
           THEN 1 ELSE 0)

\* a pass up to the call of the demodulator (lines 217-247)
rx_thread_recv ==
    /\ app = "data_modem"
    /\ pc = "loop"
    /\ RUNNING
    /\ mpc = "idle"
    /\ \E id \in RxIds :
        /\ rx' = id
        /\ IF Triggers[id].cut
           THEN /\ rx_chunk' = Triggers[id].packet_chunk
                /\ mpc' = "loop"
                /\ out' = [kind |-> "chunk", msg |-> <<>>,
                           start_cmds |-> RxStartCmds(MODE_NAME, RxBlocks[id].error_code)]
           ELSE /\ rx_chunk' = NoChunk
                /\ mpc' = "idle"
                /\ out' = [kind |-> "none", msg |-> <<>>,
                           start_cmds |-> RxStartCmds(MODE_NAME, RxBlocks[id].error_code)]
    /\ offset' = 0
    /\ best_text' = <<>>
    /\ best_score' = -1
    /\ accepted' = <<>>
    /\ UNCHANGED <<app, RUNNING, pc, stop_cmds, frame_count, sisoVars, mimoVars,
                   qualified, decisions, message, mathVars, cancelVars, loopVars>>

\* variant: an empty message is reported as well
Reported_any(msg) == TRUE

\* if len(msg) > 0 (line 249)
Reported(msg) == Len(msg) > 0

\* the rest of the pass after the demodulator has returned (lines 247-250);
\* the chunk and the locals of the call are gone
rx_thread_report ==
    /\ app = "data_modem"
    /\ pc = "loop"
    /\ mpc = "returned"
    /\ out' = IF Reported(best_text)
              THEN [kind |-> "received", msg |-> best_text, start_cmds |-> 0]
              ELSE [kind |-> "none", msg |-> <<>>, start_cmds |-> 0]
    /\ rx_chunk' = NoChunk
    /\ mpc' = "idle"
    /\ offset' = 0
    /\ best_text' = <<>>
    /\ best_score' = -1
    /\ accepted' = <<>>
    /\ UNCHANGED <<app, RUNNING, pc, stop_cmds, rx, frame_count, sisoVars, mimoVars,
                   qualified, decisions, message, mathVars, cancelVars, loopVars>>

\* leaving the while loop: the stop-stream command (lines 252-253)
rx_thread_stop ==
    /\ app = "data_modem"
    /\ pc = "loop"
    /\ mpc = "idle"
    /\ ~RUNNING
    /\ stop_cmds' = stop_cmds + 1
    /\ pc' = "done"
    /\ UNCHANGED <<app, RUNNING, rx, out, frame_count, sisoVars, mimoVars,
                   qualified, decisions, modemVars, loopVars, mathVars, cancelVars>>

NextRxThread ==
    \/ rx_thread_recv
    \/ demodulate_step
    \/ demodulate_return
    \/ rx_thread_report
    \/ handler
    \/ rx_thread_stop

\* lines 200-215
InitRxThread ==
    /\ app = "data_modem"
    /\ LoopEntry
    /\ ModemIdle
    /\ call = NoCall
    /\ ret = NoRet
    /\ tx_pc = "off"
    /\ cancel = NoCancel
    /\ calibrated = FALSE
    /\ calibration_offset = 0
    /\ current_angle = -SCAN_LIMIT
    /\ scan_direction = 1
    /\ sweep_history = <<>>
    /\ silence_counter = 0
    /\ MODE_NAME \in ModeNames

SpecRxThread == InitRxThread /\ [][NextRxThread]_vars

----------------------------------------------------------------------------
(* Properties of the presence detectors *)

\* the engine is in MONITORING once the frame count has reached
\* CALIBRATION_FRAMES
Monitoring == frame_count >= CALIBRATION_FRAMES

engineVars == <<frame_count, cal_frames, baseline_cfr, adaptive_threshold,
                cal_frames_ch0, cal_frames_ch1, baseline_cfr_ch0, baseline_cfr_ch1>>

\* the block of this state, once one has been received
Received == rx # NoBlock
RxBlock == Block(rx)

\* C1: once the engine is in MONITORING, every step (a block of any error
\* code, energy or SNR, the signal handler, the loop exit) leaves it in
\* MONITORING.
C1_MonitoringIrreversible == [][Monitoring => Monitoring']_vars

C1_Witness ==
    /\ Monitoring
    /\ decisions >= 1
    /\ rx \in {"overflow", "m_overflow"}

\* column j of the accumulated frames, summed
ColumnSum(frames, j) == SumSeq([i \in 1..Len(frames) |-> frames[i][j]])

\* C2: object_detection stays in CALIBRATING for exactly the first
\* CALIBRATION_FRAMES qualifying frames: each is appended to the accumulator,
\* the baseline is unset before the 40th and is the elementwise mean of
\* exactly those 40 vectors from the step of the 40th on, no decision is
\* printed for the first 40, and one decision per frame from the 41st on.
C2_CalibrationWindow ==
    app = "object_detection" =>
        /\ frame_count = Min2(qualified, CALIBRATION_FRAMES)
        /\ Len(cal_frames) = frame_count
        /\ out.kind = "calibrating" =>
               /\ qualified <= CALIBRATION_FRAMES
               /\ cal_frames[Len(cal_frames)] = RxBlock.cfr0
        /\ qualified < CALIBRATION_FRAMES =>
               /\ baseline_cfr = None
               /\ decisions = 0
               /\ out.kind # "decision"
        /\ qualified >= CALIBRATION_FRAMES =>
               /\ Len(baseline_cfr) = NumBins
               /\ \A j \in 1..NumBins :
                      baseline_cfr[j] =
                          ColumnSum(cal_frames, j) \div CALIBRATION_FRAMES
               /\ decisions = qualified - CALIBRATION_FRAMES
        /\ qualified = CALIBRATION_FRAMES => out.kind # "decision"

C2_Witness ==
    /\ app = "object_detection"
    /\ qualified = CALIBRATION_FRAMES + 1
    /\ decisions = 1
    /\ out.kind = "decision"
    /\ cal_frames[1] # NominalCfr

\* C3: once a baseline is finalized no step changes it, and no step changes
\* the decision threshold after the calibration has completed.
C3_BaselineFrozen ==
    [][/\ baseline_cfr # None =>
              /\ baseline_cfr' = baseline_cfr
              /\ adaptive_threshold' = adaptive_threshold
       /\ baseline_cfr_ch0 # None => baseline_cfr_ch0' = baseline_cfr_ch0
       /\ baseline_cfr_ch1 # None => baseline_cfr_ch1' = baseline_cfr_ch1]_vars

C3_Witness ==
    /\ baseline_cfr # None
    /\ baseline_cfr # NominalCfr
    /\ decisions >= 2
    /\ out.kind = "decision"
    /\ out.detected

\* whether the block of this state passed every gate of its script
Qualifying ==
    /\ Received
    /\ CASE app = "object_detection" -> SisoResult[rx].ok
         [] app = "mimo_object_detection" -> MimoResult[rx].ok
         [] OTHER -> FALSE

\* the anomaly score of the block of this state against the baseline
ScoreOfRx ==
    IF app = "object_detection"
    THEN SumSeq(AbsDiff(RxBlock.cfr0, baseline_cfr)) \div NumBins
    ELSE ((SumSeq(AbsDiff(RxBlock.cfr0, baseline_cfr_ch0)) \div NumBins)
          + (SumSeq(AbsDiff(RxBlock.cfr1, baseline_cfr_ch1)) \div NumBins)) \div 2

ThresholdInForce ==
    IF app = "object_detection" THEN adaptive_threshold ELSE DETECTION_THRESHOLD

\* C4: in MONITORING a qualifying frame yields one decision, which is
\* "detected" exactly when the frame's anomaly score is strictly greater than
\* the threshold.
C4_StrictDecision ==
    /\ (Qualifying /\ qualified > CALIBRATION_FRAMES) => out.kind = "decision"
    /\ Monitoring => decisions = qualified - CALIBRATION_FRAMES
    /\ out.kind = "decision" =>
           /\ Qualifying
           /\ out.score = ScoreOfRx
           /\ out.detected <=> (out.score > ThresholdInForce)

C4_Witness ==
    /\ out.kind = "decision"
    /\ out.score = ThresholdInForce
    /\ ~out.detected

\* noise_mean + SIGMA_MULTIPLIER * noise_std of the accumulated frames
RawOfCalibration == RawThreshold(cal_frames, baseline_cfr)

\* C5: the threshold in force during MONITORING lies in
\* [1.0, MAX_THRESHOLD]; it is the raw value when that is in the range, 1.0
\* when the raw value is below and MAX_THRESHOLD when it is above.
C5_ThresholdClamped ==
    (app = "object_detection" /\ Monitoring) =>
        /\ adaptive_threshold >= THRESHOLD_FLOOR
        /\ adaptive_threshold <= MAX_THRESHOLD
        /\ RawOfCalibration < THRESHOLD_FLOOR => adaptive_threshold = THRESHOLD_FLOOR
        /\ RawOfCalibration > MAX_THRESHOLD => adaptive_threshold = MAX_THRESHOLD
        /\ (RawOfCalibration >= THRESHOLD_FLOOR /\ RawOfCalibration <= MAX_THRESHOLD)
               => adaptive_threshold = RawOfCalibration

C5_Witness ==
    /\ app = "object_detection"
    /\ Monitoring
    /\ RawOfCalibration > MAX_THRESHOLD
    /\ adaptive_threshold = MAX_THRESHOLD

\* the block's peak sample magnitude exceeds the energy threshold
PeakAbove(b) == \E i \in 1..b.samps : b.ch0[i] > THRESHOLD

\* the detector's snr_db for the block exceeds 10
SnrAbove(id) ==
    LET b == Block(id)
    IN /\ b.samps > 0
       /\ IF id \in MimoIds
          THEN LibSnrLocked(correlate_and_detect(b.corr))
          ELSE SnrLocked(MaxOf(b.corr), NoiseFloor(b.corr, ArgMax(b.corr)))

GatesPassed == [id \in SisoIds \cup MimoIds |-> PeakAbove(Block(id)) /\ SnrAbove(id)]

PassesGates == Received /\ GatesPassed[rx]

\* C6: only a block whose peak sample magnitude exceeds the energy threshold
\* and whose snr_db exceeds 10 produces an output (metrics, a calibration
\* contribution or a decision); a block failing either leaves the engine as
\* it was.
C6_GatedByEnergyAndSnr ==
    [][/\ out'.kind # "none" => PassesGates'
       /\ ~PassesGates' => UNCHANGED <<engineVars, qualified, decisions>>]_vars

C6_Witness ==
    /\ app = "object_detection"
    /\ rx = "lowsnr"
    /\ frame_count > 0
    /\ frame_count < CALIBRATION_FRAMES
    /\ out.kind = "none"

\* whether the window cut for the block holds less than 1e-6 in total
WindowSum(id, script) ==
    LET b == Block(id)
        peak_idx == ArgMax(b.corr)
    IN IF b.samps = 0 THEN 0
       ELSE IF id \in MimoIds
       THEN Min2(SumSeq(CirWindow(b.ch0, peak_idx)), SumSeq(CirWindow(b.ch1, peak_idx)))
       ELSE IF script = "csi_analysis"
       THEN SumSeq(CsiWindow(b.corr, peak_idx))
       ELSE SumSeq(CirWindow(b.corr, peak_idx))

WindowSums == [script \in Apps |-> [id \in SisoIds \cup MimoIds |-> WindowSum(id, script)]]

WindowIsDead(id) ==
    WindowSums[app][id] < (IF id \in MimoIds THEN MIMO_ENERGY_GUARD ELSE ENERGY_GUARD)

\* a dropped block: an acquisition error, no samples, or non-qualifying
Dropped ==
    /\ Received
    /\ \/ RxBlock.error_code # "none"
       \/ RxBlock.samps = 0
       \/ ~GatesPassed[rx]
       \/ WindowIsDead(rx)

\* C7: in the presence detectors a dropped block leaves frame count,
\* accumulator, baseline and threshold as they were and produces nothing.
C7_DroppedBlockNoEffect ==
    [][(app # "csi_analysis" /\ Dropped') =>
           /\ UNCHANGED <<engineVars, qualified, decisions>>
           /\ out'.kind = "none"]_vars

C7_Witness ==
    /\ app = "mimo_object_detection"
    /\ rx = "m_overflow"
    /\ frame_count > 0
    /\ frame_count < CALIBRATION_FRAMES
    /\ out.kind = "none"

\* C8: in every script that extracts channel metrics, a block whose window
\* holds less than 1e-6 in total yields no metrics, no calibration
\* contribution and no decision.
C8_EnergyGuardEverywhere ==
    (/\ Received
     /\ RxBlock.error_code = "none"
     /\ GatesPassed[rx]
     /\ WindowIsDead(rx)) => out.kind = "none"

\* C13: a block shorter than the probe is turned away before correlation:
\* it yields no metrics, no calibration frame and no decision.
C13_ShortBlockNotCorrelated ==
    (Received /\ RxBlock.samps < CHIRP_LEN) => out.kind = "none"

----------------------------------------------------------------------------
(* Properties of the modem *)

\* C9: for "Hello World" and the other printable texts, and every number k
\* in [0, SPS) of samples put in front of the waveform of modulate_dbpsk,
\* demodulate_dbpsk_robust returns exactly the text that was modulated.
\* Every offset the loop has visited decoded exactly that text.
C9_RoundTrip ==
    message # <<>> =>
        /\ mpc = "returned" => best_text = message
        /\ Len(accepted) = offset \div OFFSET_STEP
        /\ \A i \in 1..Len(accepted) : accepted[i].text = message

C9_Witness ==
    /\ mpc = "returned"
    /\ message = MESSAGE
    /\ rx_chunk.pad = 95
    /\ rx_chunk.padval = ZeroSample
    /\ best_text = MESSAGE

\* C10: the demodulator's text is the printable decode of an offset that
\* was not rejected, and no such offset decodes a longer printable text;
\* this holds after every pass of the loop for the offsets visited so far,
\* so a later, longer decode replaces an earlier, shorter one.
C10_BestOffsetKept ==
    /\ accepted # <<>> =>
           /\ \E i \in 1..Len(accepted) : best_text = accepted[i].text
           /\ \A i \in 1..Len(accepted) : Len(accepted[i].text) <= Len(best_text)
    /\ mpc = "returned" =>
           LET decode == [o \in CandidateOffsets |-> DemodOffset(rx_chunk, o)]
               valid  == {o \in CandidateOffsets : decode[o].ok}
           IN /\ valid # {} => \E o \in valid : best_text = decode[o].text
              /\ \A o \in valid : Len(decode[o].text) <= Len(best_text)

C10_Witness ==
    /\ mpc = "returned"
    /\ \E i, j \in 1..Len(accepted) :
        /\ i < j
        /\ Len(accepted[i].text) < Len(accepted[j].text)
        /\ best_text = accepted[j].text

\* C11: for every chunk, the empty one, one with fewer than 60 symbols and
\* one without a 1 in the sync window included, the demodulator returns;
\* when every offset is rejected it returns the empty text.
C11_ReturnsEmptyWhenAllRejected ==
    /\ <>(mpc = "returned")
    /\ [](mpc = "returned" =>
             ((\A o \in CandidateOffsets : ~DemodOffset(rx_chunk, o).ok)
                  => best_text = <<>>))

C11_Witness ==
    /\ mpc = "returned"
    /\ rx_chunk.len = SPS * (MIN_SYMBOLS - 1) + SPS \div 2
    /\ DOMAIN rx_chunk.over # {}
    /\ \A o \in CandidateOffsets : ~DemodOffset(rx_chunk, o).ok
    /\ best_text = <<>>

\* the zeros among the first 48 detected bits of every offset
ZerosAt == [o \in CandidateOffsets |->
               PreambleZeros(DetectedBits(Strided(rx_chunk, o)))]

\* C12: a block of noise, which holds no preamble, is turned away by the
\* preamble-zero-count gate at every offset: no offset is accepted and the
\* demodulator returns the empty text.
C12_NoiseRejected ==
    rx_chunk \in NoiseChunks =>
        /\ accepted = <<>>
        /\ best_text = <<>>
        /\ best_score = -1
        /\ mpc = "returned" =>
               \A o \in CandidateOffsets : ZerosAt[o] < PREAMBLE_MIN_ZEROS

C12_Witness ==
    /\ rx_chunk \in NoiseChunks
    /\ mpc = "returned"
    /\ best_text = <<>>
    /\ \E o \in CandidateOffsets : ZerosAt[o] > PREAMBLE_MIN_ZEROS \div 2

----------------------------------------------------------------------------
(* Properties of the numeric functions *)

\* C14: for a window with exactly one tap that is not zero, wherever the tap
\* is, the metric extractor returns an RMS delay spread of 0 and a coherence
\* bandwidth equal to the sample rate.
C14_SingleTapFlat ==
    (ret.kind = "csi_metrics" /\ Cardinality(NonZeroTaps(call.cir_window)) = 1)
        => /\ ret.rms_delay_ns = 0
           /\ ret.coherence_bw_khz * 1000 = call.sample_rate

\* a single tap at the last place of the window has been measured
C14_Witness ==
    /\ ret.kind = "csi_metrics"
    /\ NonZeroTaps(call.cir_window) = {CSI_WIN_SIZE}
    /\ ret.rms_delay_ns = 0
    /\ ret.coherence_bw_khz * 1000 = call.sample_rate

\* C15: whatever the two blocks and the calibration offset, the corrected
\* phase of the angle estimator lies in [-pi, pi], the argument handed to
\* arcsin lies in [-1, 1], arcsin is defined, and the angle lies in
\* [-90, 90] degrees.
C15_AngleInRange ==
    ret.kind = "aoa"
        => /\ -PI <= ret.phase_diff /\ ret.phase_diff <= PI
           /\ -FIX <= ret.arg /\ ret.arg <= FIX
           /\ ~ret.nan
           /\ -9000 <= ret.theta_deg /\ ret.theta_deg <= 9000

\* under an offset that is not zero the argument came out above 1, was
\* clamped, and the angle returned is 90 degrees
C15_Witness ==
    /\ ret.kind = "aoa"
    /\ call.offset # 0
    /\ ret.unclamped > FIX
    /\ ret.arg = FIX
    /\ ret.theta_deg = 9000

\* the two blocks in call were made for the true angle call.angle_deg:
\* channel 0 carries a signal and channel 1 leads it by the steering phase of
\* that angle, for the carrier and the spacing of the estimator
MadeForAngle ==
    /\ call.fn = "calculate_aoa"
    /\ call.offset = 0
    /\ SignalPresent(call.ch0)
    /\ call.phase_rad = calculate_steering_phase(call.angle_deg, FREQ,
                                                 ANTENNA_SPACING_METERS)
    /\ call.ch1 = Lead(call.ch0, call.phase_rad)

\* what the grid resolves of an angle, in hundredths of a degree
ANGLE_TOL == 5

\* C16: with a spacing of at most half a wavelength, two blocks made with the
\* steering phase of a true angle of -60, -30, 0, 30 or 60 degrees give that
\* angle back, with its sign, when handed to the angle estimator.
C16_AngleRoundTrip ==
    /\ 2 * ANTENNA_SPACING_METERS <= Wavelength(FREQ)
    /\ (ret.kind = "aoa" /\ MadeForAngle)
           => Abs(ret.theta_deg - call.angle_deg) <= ANGLE_TOL

\* a true angle of -60 degrees went through the steering phase, which is
\* negative, and came back from the estimator
C16_Witness ==
    /\ ret.kind = "aoa"
    /\ MadeForAngle
    /\ call.angle_deg = -6000
    /\ call.phase_rad < 0
    /\ Abs(ret.theta_deg + 6000) <= ANGLE_TOL

\* C17: channel 1 leads channel 0 by the steering phase of theta plus the
\* calibration offset.  With the weight made for theta and that offset the
\* power of the combined signal is at least the power of channel 0 and at
\* least the power of channel 1; with the weight made for theta + 45 degrees
\* the power of the combined signal of a block that is not silent is
\* strictly lower than with the weight made for theta.
C17_BeamformingGain ==
    ret.kind = "beam"
        => /\ ret.pwr_beam[1] >= ret.pwr_ch0
           /\ ret.pwr_beam[1] >= ret.pwr_ch1
           /\ (Len(ret.pwr_beam) = 2 /\ ret.pwr_ch0 > 0)
                  => ret.pwr_beam[2] < ret.pwr_beam[1]

\* a block with a signal, a hardware offset that is not zero and a true angle
\* of 45 degrees: both weights have been applied, the matched one nearly
\* doubles the power of channel 0, the one for 90 degrees gives less
C17_Witness ==
    /\ ret.kind = "beam"
    /\ call.theta = 4500
    /\ call.calibration_offset # 0
    /\ Len(ret.pwr_beam) = 2
    /\ ret.pwr_ch0 > 0
    /\ 10 * ret.pwr_beam[1] > 19 * ret.pwr_ch0
    /\ ret.pwr_beam[2] < ret.pwr_beam[1]

----------------------------------------------------------------------------
(* Properties of the cancellation *)

\* C18: once the signal handler has cleared the flag, a receive loop begins
\* no iteration and finishes at most the one that was in progress, then
\* issues the stop-stream command, once, and returns; the transmit loop
\* sends at most the frame it was about to send; and from the while test
\* that finds the flag cleared on, the calibration state is not written.
C18_CooperativeCancellation ==
    /\ [](cancel.cleared =>
             /\ cancel.entered = 0
             /\ cancel.finished <= (IF cancel.pc = "body" THEN 1 ELSE 0)
             /\ cancel.sent <= (IF cancel.tx_pc = "send" THEN 1 ELSE 0))
    /\ [](stop_cmds = (IF pc = "done" THEN 1 ELSE 0))
    /\ (~RUNNING ~> pc = "done")
    /\ [][(~RUNNING /\ pc # "body") =>
              UNCHANGED <<frame_count, sisoVars, mimoVars>>]_vars

\* the flag was cleared while an iteration was in progress and a frame was
\* about to be sent: the iteration finished and wrote the calibration, the
\* frame went out, the stop-stream command was issued and both loops are left
C18_Witness ==
    /\ cancel.cleared
    /\ cancel.pc = "body"
    /\ cancel.tx_pc = "send"
    /\ cancel.finished = 1
    /\ cancel.sent = 1
    /\ frame_count = CALIBRATION_FRAMES
    /\ pc = "done"
    /\ stop_cmds = 1
    /\ tx_pc = "done"

----------------------------------------------------------------------------
(* Properties of the gates of the demodulator *)

\* detected_bits of every candidate offset of the chunk
BitsAt == [o \in CandidateOffsets |-> DetectedBits(Strided(rx_chunk, o))]

\* the offsets the loop has been through
Visited == {o \in CandidateOffsets : o < offset}

\* the offsets whose decode was taken
Taken == {accepted[i].offset : i \in 1..Len(accepted)}

\* C19: an offset goes on past the timing-lock gate exactly if at least 40 of
\* its first 48 detected bits are 0: with fewer zeros it is rejected and the
\* returned text is never its text, with 40 or more its fate is that of the
\* steps after the gate.
C19_TimingLockGate ==
    /\ \A o \in Visited : \E bits \in {BitsAt[o]} :
          o \in Taken <=> (/\ PreambleZeros(bits) >= PREAMBLE_MIN_ZEROS
                           /\ SyncAndDecode(bits).ok)
    /\ best_score >= 0 =>
          \E o \in Taken : \E bits \in {BitsAt[o]} :
              /\ PreambleZeros(bits) >= PREAMBLE_MIN_ZEROS
              /\ best_text = SyncAndDecode(bits).text

\* offset 0 has 39 zeros and was rejected although the steps after the gate
\* would have read a text of three characters from it; offset 10 has exactly
\* 40 zeros and its text of two characters is returned
C19_Witness ==
    /\ mpc = "returned"
    /\ PreambleZeros(BitsAt[0]) = PREAMBLE_MIN_ZEROS - 1
    /\ SyncAndDecode(BitsAt[0]).text = <<72, 105, 33>>
    /\ 0 \notin Taken
    /\ PreambleZeros(BitsAt[OFFSET_STEP]) = PREAMBLE_MIN_ZEROS
    /\ OFFSET_STEP \in Taken
    /\ best_text = <<72, 105>>

\* the places (from 0) of bits 45..59, as far as there are bits
WindowPlaces(bits) ==
    {i \in SYNC_WINDOW_START..(SYNC_WINDOW_END - 1) : i < Len(bits)}

\* the place (from 0) of the first 1 among bits 45..59
FirstOne(bits) ==
    CHOOSE i \in WindowPlaces(bits) :
        /\ bits[i + 1] = 1
        /\ \A j \in SYNC_WINDOW_START..(i - 1) : bits[j + 1] = 0

\* whether there is a 1 among bits 45..59
HasOne(bits) ==
    \E i \in WindowPlaces(bits) : bits[i + 1] = 1

\* the text the bits carry if the length byte starts at bit s
TextFrom(bits, s) ==
    SelectSeq(bits_to_text(Slice(bits, s + 8, s + 8 + 8 * ByteValue(bits, s))),
              IsPrintable)

\* whether a length byte of 1..100 starting at bit s and the characters it
\* announces lie within the bits
Readable(bits, s) ==
    /\ Len(bits) - s >= 8
    /\ ByteValue(bits, s) \in 1..MAX_MSG_LEN
    /\ Len(bits) >= s + 8 + 8 * ByteValue(bits, s)

----------------------------------------------------------------------------
(* Properties of the length byte and the payload *)

\* the number whose binary digits, most significant first, are the 8 bits
\* from bit s (from 0) on
MsbFirst(bits, s) ==
    SumOver([i \in 0..7 |-> bits[s + i + 1] * 2^(7 - i)], 0..7)

\* the offset came as far as a whole length byte: 60 symbols, timing lock,
\* a sync bit in the window and 8 bits after it
HasLengthByte(bits) ==
    /\ Len(bits) + 1 >= MIN_SYMBOLS
    /\ PreambleZeros(bits) >= PREAMBLE_MIN_ZEROS
    /\ HasOne(bits)
    /\ Len(bits) - (FirstOne(bits) + 1) >= 8

\* the end of the payload a length byte at bit s announces
PayloadEnd(bits, s) == s + 8 + 8 * MsbFirst(bits, s)

\* C21: the payload length is the 8 bits after the sync bit read most
\* significant bit first; an offset whose length is 0 or more than 100 is
\* rejected, and an offset whose length is in 1..100 is not rejected for its
\* length: it is taken whenever the bits of its payload are all there.
C21_LengthSanity ==
    \A o \in Visited : \E bits \in {BitsAt[o]} :
        HasLengthByte(bits) =>
            \E n \in {MsbFirst(bits, FirstOne(bits) + 1)} :
                /\ (n = 0 \/ n > MAX_MSG_LEN) => o \notin Taken
                /\ (n \in 1..MAX_MSG_LEN
                        /\ Len(bits) >= PayloadEnd(bits, FirstOne(bits) + 1))
                       => o \in Taken

\* the array holds the frame of a text of 100 characters exactly, and the
\* text was returned whole
C21_Witness ==
    /\ mpc = "returned"
    /\ HasLengthByte(BitsAt[0])
    /\ MsbFirst(BitsAt[0], FirstOne(BitsAt[0]) + 1) = MAX_MSG_LEN
    /\ 0 \in Taken
    /\ Len(best_text) = MAX_MSG_LEN

\* the offset came as far as the payload: a whole length byte of 1..100
ReachesPayload(bits) ==
    /\ HasLengthByte(bits)
    /\ MsbFirst(bits, FirstOne(bits) + 1) \in 1..MAX_MSG_LEN

\* the characters of the payload, each read from 8 bits
PayloadChars(bits, s) ==
    [c \in 1..MsbFirst(bits, s) |-> MsbFirst(bits, s + 8 + 8 * (c - 1))]

\* C22: an offset that came as far as the payload is taken only if all the
\* length*8 bits of the payload lie inside the detected bits, and is rejected
\* when fewer remain; a text that was taken, and so the text returned, is
\* the printable part of all the characters the length byte announces.
C22_PayloadComplete ==
    /\ \A o \in Visited : \E bits \in {BitsAt[o]} :
          (ReachesPayload(bits)
               /\ Len(bits) < PayloadEnd(bits, FirstOne(bits) + 1))
              => o \notin Taken
    /\ \A i \in 1..Len(accepted) : \E bits \in {BitsAt[accepted[i].offset]} :
          /\ ReachesPayload(bits)
          /\ PayloadEnd(bits, FirstOne(bits) + 1) <= Len(bits)
          /\ accepted[i].text =
                 SelectSeq(PayloadChars(bits, FirstOne(bits) + 1), IsPrintable)
    /\ best_score >= 0 =>
          \E i \in 1..Len(accepted) : best_text = accepted[i].text

\* at offset 0 the last bit of a text of 18 characters is the last bit of
\* the chunk and the text was taken; at offset 10 the same frame lies one
\* bit later and was rejected
C22_Witness ==
    /\ mpc = "returned"
    /\ ReachesPayload(BitsAt[0])
    /\ PayloadEnd(BitsAt[0], FirstOne(BitsAt[0]) + 1) = Len(BitsAt[0])
    /\ 0 \in Taken
    /\ best_text = TextOf(FitLen(SYNC_WINDOW_START + 1))
    /\ ReachesPayload(BitsAt[OFFSET_STEP])
    /\ PayloadEnd(BitsAt[OFFSET_STEP], FirstOne(BitsAt[OFFSET_STEP]) + 1)
           = Len(BitsAt[OFFSET_STEP]) + 1
    /\ OFFSET_STEP \notin Taken

----------------------------------------------------------------------------
(* Properties of the modulator *)

\* binary digit i (0 the most significant of 8) of v
Digit(v, i) == (v \div 2^(7 - i)) % 2

\* what differential detection is to give for a text: 49 zeros, a 1, the
\* digits of the length, the digits of the characters in order
FrameOf(text) ==
    [i \in 1..(PILOT_SYMBOLS + 8 * (Len(text) + 1)) |->
        IF i < PILOT_SYMBOLS THEN 0
        ELSE IF i = PILOT_SYMBOLS THEN 1
        ELSE IF i <= PILOT_SYMBOLS + 8 THEN Digit(Len(text), i - PILOT_SYMBOLS - 1)
        ELSE Digit(text[(i - PILOT_SYMBOLS - 9) \div 8 + 1],
                   (i - PILOT_SYMBOLS - 9) % 8)]

\* the sampling phases looked at: the candidate offsets and the last sample
\* of a symbol
SymbolPhases == CandidateOffsets \cup {SPS - 1}

\* C23: for a text of n <= 255 characters the waveform has 51 + 8*(n+1)
\* symbols of SPS equal samples each, and differential detection of its
\* consecutive symbols gives 49 zeros, the single 1 of the sync flip, the 8
\* digits of n and the 8 digits of each character in order, most significant
\* digit first.
C23_FrameStructure ==
    ret.kind = "tx_signal" =>
        \E text \in {call.text}, tx \in {ret.tx_signal} :
            /\ Len(text) <= 255
            /\ tx.len = SPS * (PILOT_SYMBOLS + 1 + 8 * (Len(text) + 1))
            /\ \A off \in SymbolPhases :
                  \E raw_symbols \in {Strided(tx, off)} :
                      /\ Len(raw_symbols) = PILOT_SYMBOLS + 1 + 8 * (Len(text) + 1)
                      /\ raw_symbols = Strided(tx, 0)
                      /\ DetectedBits(raw_symbols) = FrameOf(text)

\* a text of 255 characters has been modulated: 2099 symbols, and the
\* length byte is eight ones
C23_Witness ==
    /\ ret.kind = "tx_signal"
    /\ Len(call.text) = 255
    /\ ret.tx_signal.len = SPS * 2099
    /\ \A i \in 1..8 : DetectedBits(Strided(ret.tx_signal, 0))[PILOT_SYMBOLS + i] = 1

----------------------------------------------------------------------------
(* Properties of the impulse-response window *)

\* the windows the script cuts for the block to hand to the metric extractor
WindowsCut(id, script) ==
    LET b == Block(id)
        peak_idx == ArgMax(b.corr)
    IN IF id \in MimoIds
       THEN {CirWindow(b.ch0, peak_idx), CirWindow(b.ch1, peak_idx)}
       ELSE IF script = "csi_analysis"
       THEN {CsiWindow(b.corr, peak_idx)}
       ELSE {CirWindow(b.corr, peak_idx)}

\* CSI_WIN_SIZE values of the correlation with the peak at index PRE_CURSOR
\* and zeros beyond the ends of the correlation
PeakWindow(correlation, peak_idx) ==
    [i \in 1..CSI_WIN_SIZE |->
        IF /\ 0 <= peak_idx - PRE_CURSOR + (i - 1)
           /\ peak_idx - PRE_CURSOR + (i - 1) < Len(correlation)
        THEN correlation[peak_idx - PRE_CURSOR + (i - 1) + 1]
        ELSE 0]

\* C24: the window cut for a block that passed the gates is a slice of the
\* correlation of exactly CSI_WIN_SIZE samples with the detected peak at
\* index 10 and zeros where it reaches past an end of the correlation.
C24_FixedWindow ==
    (Received /\ RxBlock.error_code = "none" /\ GatesPassed[rx]) =>
        \A cir_window \in WindowsCut(rx, app) :
            /\ Len(cir_window) = CSI_WIN_SIZE
            /\ cir_window[PRE_CURSOR + 1] = MaxOf(RxBlock.corr)
            /\ cir_window = PeakWindow(RxBlock.corr, ArgMax(RxBlock.corr))

----------------------------------------------------------------------------
(* Properties of the beamformer loop *)

\* a step of the receive loop: neither the signal handler nor the exit
LoopStep == RUNNING' = RUNNING /\ pc' = pc

\* an error-free block whose peak channel-0 power exceeds -35 dB
AboveCalibration(id) ==
    /\ BeamBlocks[id].error_code = "none"
    /\ \E i \in 1..BeamBlocks[id].samps :
          BeamBlocks[id].ch0[i][1] * BeamBlocks[id].ch0[i][1]
              + BeamBlocks[id].ch0[i][2] * BeamBlocks[id].ch0[i][2]
              > CALIBRATION_POWER

Measured == <<current_angle, out'.pwr_beam>>

\* C28: the sweep starts at -60 degrees going up; before calibration the
\* angle does not move and no history is recorded; afterwards the angle
\* changes by exactly 2 degrees at a display tick and not otherwise, and
\* stays within [-62, 62]; the direction changes only on a step that takes
\* the angle beyond +60 or -60; an evaluation of a limit looks at exactly the
\* measurements recorded since the history was last emptied and empties it,
\* and any other step at most appends its own measurement.
C28_SweepBounds ==
    /\ [](~calibrated => /\ current_angle = -SCAN_LIMIT
                         /\ scan_direction = 1
                         /\ sweep_history = <<>>)
    /\ [](/\ current_angle >= -SCAN_LIMIT - SCAN_SPEED
          /\ current_angle <= SCAN_LIMIT + SCAN_SPEED)
    /\ [][IF LoopStep /\ calibrated' /\ out'.kind = "beam" /\ out'.tick
          THEN Abs(current_angle' - current_angle) = SCAN_SPEED
          ELSE current_angle' = current_angle]_vars
    /\ [][scan_direction' # scan_direction =>
              (current_angle' > SCAN_LIMIT \/ current_angle' < -SCAN_LIMIT)]_vars
    /\ [][IF LoopStep /\ out'.kind = "beam" /\ out'.evaluation.kind # "none"
          THEN /\ out'.evaluation.history = Append(sweep_history, Measured)
               /\ sweep_history' = <<>>
          ELSE \/ sweep_history' = sweep_history
               \/ /\ LoopStep
                  /\ out'.kind = "beam"
                  /\ sweep_history' = Append(sweep_history, Measured)
         ]_vars

\* the limit has just been evaluated at 62 degrees and the direction turned:
\* the evaluation saw only what was measured at 60 degrees, after the
\* evaluation made on reaching 60 degrees
C28_Witness ==
    /\ current_angle = SCAN_LIMIT + SCAN_SPEED
    /\ scan_direction = -1
    /\ sweep_history = <<>>
    /\ out.kind = "beam"
    /\ out.evaluation.kind # "none"
    /\ \A i \in 1..Len(out.evaluation.history) :
          out.evaluation.history[i][1] = SCAN_LIMIT

----------------------------------------------------------------------------
(* Properties of the calibration state *)

\* C26: in the single-channel detector the frame count is the number of
\* vectors in the calibration accumulator and never exceeds
\* CALIBRATION_FRAMES; the baseline is unset exactly while the frame count
\* is below CALIBRATION_FRAMES, so a decision is only ever printed with a
\* baseline in place.
C26_CountMatchesAccumulator ==
    app = "object_detection" =>
        /\ frame_count = Len(cal_frames)
        /\ frame_count <= CALIBRATION_FRAMES
        /\ (baseline_cfr = None) <=> (frame_count < CALIBRATION_FRAMES)
        /\ out.kind = "decision" => baseline_cfr # None

\* the calibration is complete: 40 vectors are held, the baseline is set and
\* a decision has been printed
C26_Witness ==
    /\ app = "object_detection"
    /\ frame_count = CALIBRATION_FRAMES
    /\ Len(cal_frames) = CALIBRATION_FRAMES
    /\ baseline_cfr # None
    /\ out.kind = "decision"

\* C27: in the two-channel detector the two accumulators hold as many
\* vectors as the frame count says, the two baselines are unset together
\* and set together, on the step that takes the frame count to
\* CALIBRATION_FRAMES; a block is counted only if it passed the gates and
\* the windows of both channels passed the energy guard, and a block for
\* which either window fails it changes nothing and prints nothing.
C27_Lockstep ==
    /\ [](app = "mimo_object_detection" =>
            /\ Len(cal_frames_ch0) = frame_count
            /\ Len(cal_frames_ch1) = frame_count
            /\ frame_count <= CALIBRATION_FRAMES
            /\ (baseline_cfr_ch0 = None) <=> (frame_count < CALIBRATION_FRAMES)
            /\ (baseline_cfr_ch1 = None) <=> (frame_count < CALIBRATION_FRAMES))
    /\ [][app = "mimo_object_detection" =>
            /\ frame_count' # frame_count =>
                  /\ frame_count' = frame_count + 1
                  /\ PassesGates'
                  /\ RxBlock'.error_code = "none"
                  /\ ~WindowIsDead(rx')
            /\ (Received' /\ WindowIsDead(rx')) =>
                  /\ UNCHANGED <<frame_count, mimoVars>>
                  /\ out'.kind = "none"]_vars

\* channel 1 of the block is silent while channel 0 is loud and locked:
\* nothing was counted
C27_Witness ==
    /\ app = "mimo_object_detection"
    /\ rx = "m_dead1"
    /\ GatesPassed[rx]
    /\ SumSeq(CirWindow(RxBlock.ch0, ArgMax(RxBlock.corr))) >= MIMO_ENERGY_GUARD
    /\ SumSeq(CirWindow(RxBlock.ch1, ArgMax(RxBlock.corr))) < MIMO_ENERGY_GUARD
    /\ frame_count > 0
    /\ frame_count < CALIBRATION_FRAMES
    /\ Len(cal_frames_ch1) = frame_count
    /\ out.kind = "none"

----------------------------------------------------------------------------
(* Properties of the loopback receive loop *)

\* C29: the silence counter is between 0 and 20 whenever an iteration starts.
\* A timeout adds one to it, except that the 21st in a row re-issues the
\* stream start command and sets it to 0; a block with samples sets it to 0;
\* an overflow, any other error and an empty read leave it as it is, and
\* none of these restarts the stream.
C29_SilenceCounter ==
    /\ [](silence_counter \in 0..SILENCE_LIMIT)
    /\ [][(LoopStep /\ app = "loopback_test") =>
            \E b \in {LoopbackBlocks[rx']} :
                IF b.error_code = "timeout"
                THEN IF silence_counter = SILENCE_LIMIT
                     THEN /\ silence_counter' = 0
                          /\ out'.restart
                          /\ out'.start_cmds >= 1
                     ELSE /\ silence_counter' = silence_counter + 1
                          /\ ~out'.restart
                ELSE /\ ~out'.restart
                     /\ IF b.error_code = "none" /\ b.samps > 0
                        THEN silence_counter' = 0
                        ELSE silence_counter' = silence_counter]_vars

\* the watchdog has just restarted the stream: the counter is back at 0
\* after a timeout
C29_Witness ==
    /\ app = "loopback_test"
    /\ rx = "timeout"
    /\ out.restart
    /\ out.kind = "watchdog"
    /\ silence_counter = 0

----------------------------------------------------------------------------
(* Properties of the modem receive thread *)

\* C30: while the demodulator runs for the receive thread its chunk has
\* exactly 20000 samples, which is 200 symbols and 199 detected bits at
\* each offset, and was cut from a block with more than 2000 samples above
\* the trigger threshold; a reported message has between 1 and 18
\* characters, all of them in 32..126.
C30_ShortReports ==
    (app = "data_modem" /\ rx \in RxIds) =>
        /\ mpc \in {"loop", "returned"} =>
              /\ rx_chunk.len = CHUNK_LEN
              /\ \A o \in CandidateOffsets :
                    /\ Len(Strided(rx_chunk, o)) = 200
                    /\ Len(DetectedBits(Strided(rx_chunk, o))) = 199
              /\ Triggers[rx].loud > 2000
        /\ out.kind = "received" =>
              /\ Len(out.msg) \in 1..18
              /\ Len(out.msg) <= MAX_MSG_LEN
              /\ \A i \in 1..Len(out.msg) : out.msg[i] \in 32..126

\* a message of 18 characters has been reported
C30_Witness ==
    /\ app = "data_modem"
    /\ rx = "late18"
    /\ out.kind = "received"
    /\ Len(out.msg) = 18
    /\ stop_cmds = 0

====
